---- MODULE Spec2Model ----
(***************************************************************************)
(* Pipeline orchestration and recovery core of the playlist repository:    *)
(* the Record Store (TrackDB), the Failure Ledger (FailedTasksDB), the     *)
(* Checkpoint Store (CheckpointDB), the scanner (MusicScanner) and the     *)
(* stage orchestrator (Pipeline.run / Pipeline.resume_from_checkpoint).    *)
(*                                                                         *)
(* One Pipeline object runs one call at a time.  A call is cut into steps  *)
(* at the places where an operator cancel (KeyboardInterrupt) or an        *)
(* unexpected exception can separate the code: before a stage, before a    *)
(* per-item operation of a batch, and on entry of the progress callback.   *)
(***************************************************************************)
EXTENDS Integers, Sequences, FiniteSets, TLC

\* ------------------------------------------------------------------ bounds
MaxTracks == 2
MaxFailures == 2
MaxLimit == 1
MaxCalls == 2
MaxOps == 3
MaxAppends == 12
MaxLedgerOps == 4

\* ------------------------------------------------------- program constants
CheckpointEvery == 5
ErrorLogMax == 10

Ids == 1..MaxTracks

VARIABLES
    tracks,            \* TrackDB: "tracks" mapping, id -> record
    order,             \* insertion order of the "tracks" dict
    musicFiles,        \* ids with an audio file in the music folder
    imageFiles,        \* ids with an image file in the image folder
    videoFiles,        \* ids with an mp4 in the video folder
    ledger,            \* FailedTasksDB: "failed_tasks" list
    cpData,            \* CheckpointDB._data of the running process
    cpFile,            \* content of checkpoint.json
    alias,             \* cpData.completed_tracks is the callback's live list object
    pc,                \* position of the current call
    fn,                \* the function whose body is executing: "run" | "resume"
    entry,             \* the function the caller invoked
    opts,              \* the options of the call
    stages_result,     \* local stages_result: stage key -> counts
    track_ids,         \* list handed to the current batch operation
    idx,               \* loop counter i of the batch (1-based)
    completed_tracks,  \* live list kept by the progress callback
    results,           \* results list of the current batch
    batchStage,        \* stage of the batch that results belongs to; the stage
                       \* argument of retry_failed_tasks
    render_force,      \* render_options["force"] handed to render_batch
    resume_stage,      \* resume_from_checkpoint: checkpoint's current_stage
    rCompleted,        \* resume_from_checkpoint: set(completed_tracks)
    rPending,          \* resume_from_checkpoint: pending_tracks
    result,            \* the value the call returned (or that it raised)
    invoked,           \* history: per-item operations invoked in this call
    progress,          \* history: progress callback invocations of the batch
    ran,               \* history: stages this call has entered
    cancelled,         \* history: an operator cancel hit this call
    intr,              \* history: what the last interrupted run had done
    failures,          \* number of collaborator failures so far (bounded)
    calls,             \* number of calls made so far (bounded)
    db,                \* TrackDB._data of the process: loaded flag, id -> full record
    dbFile,            \* content of tracks.json
    dbBak,             \* content of tracks.json.bak
    now,               \* datetime.now(), one tick per store operation
    op,                \* history: the last store operation and how it ended
    crash,             \* history: a crash not yet followed by a load, and the
                       \* content of tracks.json when the crashed save began
    lastChange,        \* history: id -> time of the last change to its record
    appended,          \* history: id -> every entry add_error_log appended
    opBudget,          \* store operations left (bounded)
    lastRecorded,      \* history: (id, stage) -> message and number of the
                       \* add_failed_task calls since the pair was last removed
    drained,           \* history: the list retry_all_failed returned, and
                       \* whether it still is the ledger's own list object
    cpOp,              \* history: the last save_checkpoint / clear_checkpoint
                       \* call made on the Checkpoint Store on its own
    peer,              \* TrackDB._data of a second process on the same tracks.json
    adds,              \* history: the last two add_track calls that returned
                       \* True, with the process that made each
    lk                 \* the lock files: what each process holds, the lock
                       \* sections its operation still has to go through

storeVars == <<tracks, order, musicFiles, imageFiles, videoFiles>>
cpVars    == <<cpData, cpFile, alias>>
frameVars == <<pc, fn, entry, opts, stages_result, track_ids, idx,
               completed_tracks, results, batchStage, render_force,
               resume_stage, rCompleted, rPending, result>>
histVars  == <<invoked, progress, ran, cancelled, intr, failures, calls>>
ledgerHist == <<lastRecorded, drained>>
cpHist    == <<cpOp>>
procVars  == <<peer, adds, lk>>
dbVars    == <<db, dbFile, dbBak, now, op, crash, lastChange, appended, opBudget,
               ledgerHist, cpHist, procVars>>
vars      == <<storeVars, ledger, cpVars, frameVars, histVars, dbVars>>

\* ------------------------------------------------------------ sequences
RECURSIVE SortedSeq(_)
SortedSeq(S) ==
    IF S = {} THEN <<>>
    ELSE LET m == CHOOSE x \in S : \A y \in S : x <= y
         IN  <<m>> \o SortedSeq(S \ {m})

Range(s) == {s[i] : i \in 1..Len(s)}

RECURSIVE Filter(_, _)
\* [x for x in s if x not in drop]
Filter(s, drop) ==
    IF s = <<>> THEN <<>>
    ELSE IF Head(s) \in drop THEN Filter(Tail(s), drop)
         ELSE <<Head(s)>> \o Filter(Tail(s), drop)

Prefix(s, n) == IF n >= Len(s) THEN s ELSE SubSeq(s, 1, n)

\* every ordering of a finite set, as sequences without repetition
Orderings(S) ==
    {s \in [1..Cardinality(S) -> S] : \A i, j \in 1..Cardinality(S) : i # j => s[i] # s[j]}

\* ------------------------------------------------------------ Record Store
Stages == {"music", "image", "video"}

\* default record of add_track: every stage pending, no paths, empty error log
DefaultTrack ==
    [present |-> TRUE, music |-> "pending", music_path |-> FALSE,
     image |-> "pending", image_path |-> FALSE,
     video |-> "pending", video_path |-> FALSE,
     error_log |-> <<>>]

\* record given by register_new_track: only "track_id" and "music" keys exist;
\* "none" stands for a stage key that the record does not have
ScannedTrack ==
    [present |-> TRUE, music |-> "completed", music_path |-> TRUE,
     image |-> "none", image_path |-> FALSE,
     video |-> "none", video_path |-> FALSE,
     error_log |-> <<>>]

\* an id that the "tracks" mapping does not hold
NoTrack == [DefaultTrack EXCEPT !.present = FALSE]

has_track(tr, id) == tr[id].present
TrackIds(tr) == {id \in Ids : tr[id].present}

\* add_track: inserts only when the id is absent
add_track(tr, id, rec) == IF has_track(tr, id) THEN tr ELSE [tr EXCEPT ![id] = rec]
add_order(tr, ord, id) == IF has_track(tr, id) THEN ord ELSE Append(ord, id)

\* get_all_tracks: the dict's values in insertion order
get_all_tracks(ord) == ord

\* variant of the truncation that keeps the oldest entries instead of the newest
TruncateLog_oldest(log) ==
    IF Len(log) > ErrorLogMax THEN SubSeq(log, 1, ErrorLogMax) ELSE log

TruncateLog(log) ==
    IF Len(log) > ErrorLogMax
    THEN SubSeq(log, Len(log) - ErrorLogMax + 1, Len(log))
    ELSE log

add_error_log(tr, id, stage, msg) ==
    IF ~has_track(tr, id) THEN tr
    ELSE [tr EXCEPT ![id].error_log =
              TruncateLog(Append(@, [stage |-> stage, message |-> msg]))]

update_status(tr, id, stage, status) ==
    IF ~has_track(tr, id) THEN tr
    ELSE IF tr[id][stage] = "none" THEN tr
    ELSE [tr EXCEPT ![id][stage] = status]

\* update_track(id, {"image": {"status": "completed", "file_path": path, ...}})
update_image_completed(tr, id) ==
    IF ~has_track(tr, id) THEN tr
    ELSE [tr EXCEPT ![id].image = "completed", ![id].image_path = TRUE]

\* update_track(id, {"video": {"status": "completed", "file_path": path, ...}, ...})
update_video_completed(tr, id) ==
    IF ~has_track(tr, id) THEN tr
    ELSE [tr EXCEPT ![id].video = "completed", ![id].video_path = TRUE]

\* ---------------------------------------------------------- Failure Ledger
LedgerHas(ld, id, stage) ==
    \E i \in 1..Len(ld) : ld[i].track_id = id /\ ld[i].stage = stage

\* variant that appends without looking for an existing entry
add_failed_task_append(ld, id, stage, msg) ==
    Append(ld, [track_id |-> id, stage |-> stage, error_message |-> msg])

\* variant that leaves an existing entry as it is
add_failed_task_keep(ld, id, stage, msg) ==
    IF LedgerHas(ld, id, stage) THEN ld
    ELSE Append(ld, [track_id |-> id, stage |-> stage, error_message |-> msg])

\* add_failed_task: the entry of (track_id, stage) updated in place, else a
\* new entry appended
add_failed_task(ld, id, stage, msg) ==
    IF LedgerHas(ld, id, stage)
    THEN [i \in 1..Len(ld) |->
             IF ld[i].track_id = id /\ ld[i].stage = stage
             THEN [ld[i] EXCEPT !.error_message = msg]
             ELSE ld[i]]
    ELSE Append(ld, [track_id |-> id, stage |-> stage, error_message |-> msg])

get_failed_tasks(ld) == ld

\* remove_failed_task: the list without the entries of (track_id, stage)
remove_failed_task(ld, id, stage) ==
    SelectSeq(ld, LAMBDA t : ~(t.track_id = id /\ t.stage = stage))

\* ------------------------------------------------------- Checkpoint Store
NoCheckpoint ==
    [present |-> FALSE, is_running |-> FALSE, current_stage |-> "",
     current_track_id |-> 0, completed_tracks |-> <<>>, pending_tracks |-> <<>>]

\* CheckpointDB._data after load(): the cached data, else what the file holds
load_data(d, f) == IF d.present THEN d ELSE f

\* variant of load() that returns the data whatever is_running says
load_any(d, f) == load_data(d, f)

\* CheckpointDB.load(): the checkpoint only when is_running, else None
load(d, f) ==
    LET x == load_data(d, f)
    IN  IF x.present /\ x.is_running THEN x ELSE NoCheckpoint

has_checkpoint(d, f) == load(d, f).present

save_checkpoint(stage, tid, completed, pending) ==
    [present |-> TRUE, is_running |-> TRUE, current_stage |-> stage,
     current_track_id |-> tid, completed_tracks |-> completed,
     pending_tracks |-> pending]

\* variant that writes the data back without touching is_running
clear_checkpoint_keep(d, f) ==
    IF ~f.present THEN d ELSE load_data(d, f)

\* clear_checkpoint: nothing when the file does not exist, else the data
\* (read from the file when not cached) with is_running = False, written back
clear_checkpoint(d, f) ==
    IF ~f.present THEN d
    ELSE [load_data(d, f) EXCEPT !.is_running = FALSE]

clear_checkpoint_file(d, f) ==
    IF ~f.present THEN f ELSE clear_checkpoint(d, f)

\* ------------------------------------------------------------ Scanner/Sync
\* scan(): the ids of the audio files, sorted by id
scan(mf) == SortedSeq(mf)

\* detect_new_tracks(): scanned ids that the store does not hold
detect_new_tracks(tr, mf) == Filter(scan(mf), TrackIds(tr))

\* register_all_new(): register_new_track for each new id, in scan order
RECURSIVE register_all(_, _)
register_all(tr, new) ==
    IF new = <<>> THEN tr
    ELSE register_all(add_track(tr, Head(new), ScannedTrack), Tail(new))

\* sync_with_db for one stage: (status, path) after reconciliation with the
\* observed file
sync_status(status, exists) ==
    IF exists THEN "completed"
    ELSE IF status = "completed" THEN "pending" ELSE status

sync_path(path, exists) == IF exists THEN TRUE ELSE path

sync_with_db(rec, id, mf, imf, vf) ==
    [rec EXCEPT !.music = sync_status(@, id \in mf),
                !.music_path = sync_path(@, id \in mf),
                !.image = sync_status(@, id \in imf),
                !.image_path = sync_path(@, id \in imf),
                !.video = sync_status(@, id \in vf),
                !.video_path = sync_path(@, id \in vf)]

\* full_scan_and_sync(): register the new files, then sync every record
full_scan_tracks(tr, mf, imf, vf) ==
    LET reg == register_all(tr, detect_new_tracks(tr, mf))
    IN  [id \in Ids |-> IF has_track(reg, id)
                         THEN sync_with_db(reg[id], id, mf, imf, vf)
                         ELSE reg[id]]

full_scan_order(tr, ord, mf) == ord \o detect_new_tracks(tr, mf)

\* detect_missing_files(): records whose audio file is not on disk
detect_missing_files(tr, ord, mf) == Filter(ord, mf)

get_tracks_needing_image(tr, ord) ==
    Filter(ord, {id \in Ids : tr[id].image \notin {"pending", "failed"}})

get_tracks_needing_video(tr, ord) ==
    Filter(ord, {id \in Ids :
                    ~(tr[id].video \in {"pending", "failed"} /\ tr[id].image = "completed")})

\* ------------------------------------------------- per-item operations
ImgErr   == "image generation failed"
VidErr   == "render failed"
NotFound == "track not found"
NoMusic  == "music file not found"
NoImage  == "image file not found"

ItemResult(id, success, skipped, error) ==
    [track_id |-> id, success |-> success, skipped |-> skipped, error |-> error]

StatusOf(r) ==
    IF r.skipped THEN "skipped" ELSE IF r.success THEN "success" ELSE "failed"

\* should_generate(track_id, force)
should_generate(id, force, imf) == force \/ id \notin imf

\* the except branch of generate_for_track / render_for_track
record_item_failure(tr, id, stage, msg) ==
    update_status(add_error_log(tr, id, stage, msg), id, stage, "failed")

\* generate_for_track(track_id, db, force); ok is the collaborator's outcome
generate_for_track(tr, imf, id, force, ok) ==
    IF ~should_generate(id, force, imf)
    THEN [tracks |-> tr, files |-> imf, collab |-> FALSE,
          res |-> ItemResult(id, TRUE, TRUE, "")]
    ELSE IF ~has_track(tr, id)
    THEN [tracks |-> record_item_failure(tr, id, "image", NotFound), files |-> imf,
          collab |-> FALSE, res |-> ItemResult(id, FALSE, FALSE, NotFound)]
    ELSE IF ok
    THEN [tracks |-> update_image_completed(tr, id), files |-> imf \cup {id},
          collab |-> TRUE, res |-> ItemResult(id, TRUE, FALSE, "")]
    ELSE [tracks |-> record_item_failure(tr, id, "image", ImgErr), files |-> imf,
          collab |-> TRUE, res |-> ItemResult(id, FALSE, FALSE, ImgErr)]

\* render_for_track(track_id, db, options); ok is the collaborator's outcome
render_for_track(tr, mf, imf, vf, id, force, ok) ==
    IF ~has_track(tr, id)
    THEN [tracks |-> record_item_failure(tr, id, "video", NotFound), files |-> vf,
          collab |-> FALSE, res |-> ItemResult(id, FALSE, FALSE, NotFound)]
    ELSE IF ~(tr[id].music_path /\ id \in mf)
    THEN [tracks |-> record_item_failure(tr, id, "video", NoMusic), files |-> vf,
          collab |-> FALSE, res |-> ItemResult(id, FALSE, FALSE, NoMusic)]
    ELSE IF ~(tr[id].image_path /\ id \in imf)
    THEN [tracks |-> record_item_failure(tr, id, "video", NoImage), files |-> vf,
          collab |-> FALSE, res |-> ItemResult(id, FALSE, FALSE, NoImage)]
    ELSE IF ~force /\ id \in vf
    THEN [tracks |-> tr, files |-> vf, collab |-> FALSE,
          res |-> ItemResult(id, TRUE, TRUE, "")]
    ELSE IF ok
    THEN [tracks |-> update_video_completed(tr, id), files |-> vf \cup {id},
          collab |-> TRUE, res |-> ItemResult(id, TRUE, FALSE, "")]
    ELSE [tracks |-> record_item_failure(tr, id, "video", VidErr), files |-> vf,
          collab |-> TRUE, res |-> ItemResult(id, FALSE, FALSE, VidErr)]

\* _handle_track_error(track_id, stage, error): the Record Store part
handle_track_error(tr, id, stage, msg) ==
    update_status(add_error_log(tr, id, stage, msg), id, stage, "failed")

\* the failed results of a batch, in order: not success and not skipped
FailedOf(rs) == SelectSeq(rs, LAMBDA r : ~r.success /\ ~r.skipped)

\* the loop over result["results"] after a batch: Record Store
RECURSIVE handle_failures_tracks(_, _, _)
handle_failures_tracks(tr, fs, stage) ==
    IF fs = <<>> THEN tr
    ELSE handle_failures_tracks(
             handle_track_error(tr, Head(fs).track_id, stage, Head(fs).error),
             Tail(fs), stage)

\* the loop over result["results"] after a batch: Failure Ledger
RECURSIVE handle_failures_ledger(_, _, _)
handle_failures_ledger(ld, fs, stage) ==
    IF fs = <<>> THEN ld
    ELSE handle_failures_ledger(
             add_failed_task(ld, Head(fs).track_id, stage, Head(fs).error),
             Tail(fs), stage)

Count(rs, st) == Len(SelectSeq(rs, LAMBDA r : StatusOf(r) = st))

\* {"generated"/"rendered": successful, "skipped": skipped, "failed": failed}
StageCounts(rs) == <<Count(rs, "success"), Count(rs, "skipped"), Count(rs, "failed")>>
NoCounts == <<0, 0, 0>>

\* options.get("limit") is truthy
HasLimit(o) == o.limit # -1 /\ o.limit # 0
ApplyLimit(s, o) == IF HasLimit(o) THEN Prefix(s, o.limit) ELSE s

\* get_statistics(): fully_completed and total_tracks
FullyCompleted(tr) ==
    Cardinality({id \in Ids : /\ tr[id].present
                              /\ tr[id].music = "completed"
                              /\ tr[id].image = "completed"
                              /\ tr[id].video = "completed"})

\* {"fully_completed", "pending", "failed"} of a run's result
Summary(tr, ld) ==
    <<FullyCompleted(tr), Cardinality(TrackIds(tr)) - FullyCompleted(tr),
      Len(get_failed_tasks(ld))>>

\* --------------------------------------------------------- calls and frames
AllOptions ==
    [auto_resume : BOOLEAN, skip_images : BOOLEAN, skip_videos : BOOLEAN,
     force : BOOLEAN, limit : {-1} \cup (0..MaxLimit)]

\* the options the calls are made with: the skip flags alone or together, and
\* auto_resume with either force or any limit (-1 stands for no "limit" key)
OptionSets ==
    {o \in AllOptions :
        /\ (o.skip_images \/ o.skip_videos) =>
               (~o.auto_resume /\ ~o.force /\ o.limit = -1)
        /\ o.force => o.limit = -1}

NoOptions ==
    [auto_resume |-> FALSE, skip_images |-> FALSE, skip_videos |-> FALSE,
     force |-> FALSE, limit |-> -1]

NoResult ==
    [kind |-> "none", error |-> "", checkpoint |-> NoCheckpoint, stages |-> {},
     summary |-> <<0, 0, 0>>, resumed |-> FALSE, at |-> "idle",
     total |-> 0, retried |-> 0, results |-> <<>>]

NoIntr == [stage |-> "none", done |-> {}, todo |-> {}]

\* the positions inside the try block of run / the body of resume_from_checkpoint
Body ==
    {"scan", "img_select", "img_call", "img_cb", "img_errors",
     "vid_select", "vid_call", "vid_cb", "vid_errors", "finish"}

HasKey(sr, k) == \E p \in sr : p[1] = k
SetKey(sr, k, v) == {p \in sr : p[1] # k} \cup {<<k, v>>}

\* ------------------------------------------------- TrackDB, record by record
\* A record of tracks.json in full: its nested dicts are the set of their
\* leaves, each leaf a pair <<path of keys, value>>; updated_at and error_log
\* are kept beside them.  None is the value "None".
IsPrefix(p, q) == Len(p) <= Len(q) /\ SubSeq(q, 1, Len(p)) = p

\* track[k1][k2]...: the value at path p, "none" when the key is missing
Get(F, p) == IF \E x \in F : x[1] = p THEN (CHOOSE x \in F : x[1] = p)[2] ELSE "none"

\* isinstance(d[k1][k2]..., dict)
IsDict(F, p) == \E x \in F : IsPrefix(p, x[1]) /\ Len(x[1]) > Len(p)

\* k in track
HasField(F, k) == \E x \in F : x[1][1] = k

\* d[k1][k2]... = value: the subtree at p replaced by the leaf
SetLeaf(F, p, v) == {x \in F : ~IsPrefix(p, x[1])} \cup {<<p, v>>}

\* the default record of add_track(track_id, None)
DefaultFields ==
    {<<<<"music", "status">>, "pending">>, <<<<"music", "file_path">>, "None">>,
     <<<<"image", "status">>, "pending">>, <<<<"image", "file_path">>, "None">>,
     <<<<"image", "prompt_used">>, "None">>, <<<<"image", "style">>, "None">>,
     <<<<"video", "status">>, "pending">>, <<<<"video", "file_path">>, "None">>}

\* initial_data of register_new_track: "track_id" and "music" only
RegisterFields(path) ==
    {<<<<"music", "status">>, "completed">>, <<<<"music", "file_path">>, path>>}

NoRecord == [present |-> FALSE, updated_at |-> 0, error_log |-> <<>>, fields |-> {}]

NewRecord(F, t) == [present |-> TRUE, updated_at |-> t, error_log |-> <<>>, fields |-> F]

\* the loop of update_track: for a key whose old and new values are both
\* dicts, track[key].update(value) replaces the entries of value's keys, one
\* level down; for any other key the new value replaces the old one
MergeFields(F, U) ==
    LET depth(k) == IF IsDict(U, <<k>>) /\ IsDict(F, <<k>>) THEN 2 ELSE 1
    IN  {x \in F : ~\E u \in U :
            LET d == depth(u[1][1])
            IN  Len(x[1]) >= d /\ SubSeq(x[1], 1, d) = SubSeq(u[1], 1, d)} \cup U

\* update_track on a record that exists
TrackDB_update_track(rec, U, t) ==
    [rec EXCEPT !.fields = MergeFields(@, U), !.updated_at = t]

\* update_status on a record that has the stage key
TrackDB_update_status(rec, stage, status, t) ==
    [rec EXCEPT !.fields = SetLeaf(@, <<stage, "status">>, status), !.updated_at = t]

\* add_error_log on a record that exists
TrackDB_add_error_log(rec, stage, msg, t) ==
    [rec EXCEPT !.error_log =
                    TruncateLog(Append(@, [timestamp |-> t, stage |-> stage, message |-> msg]))]

\* file status of check_file_status: per stage "absent" or the path found
StageNames == <<"music", "image", "video">>

\* the updates dict that sync_with_db builds for one stage
SyncUpdates(F, stage, seen) ==
    IF seen # "absent"
    THEN (IF Get(F, <<stage, "status">>) # "completed"
          THEN {<<<<stage, "status">>, "completed">>} ELSE {})
         \cup
         (IF Get(F, <<stage, "file_path">>) # seen
          THEN {<<<<stage, "file_path">>, seen>>} ELSE {})
    ELSE IF Get(F, <<stage, "status">>) = "completed"
         THEN {<<<<stage, "status">>, "pending">>} ELSE {}

\* the whole updates dict of sync_with_db(track_id, status)
SyncAllUpdates(F, status) ==
    UNION {SyncUpdates(F, StageNames[i], status[StageNames[i]]) : i \in 1..3}


InitPipeline ==
    /\ tracks = [id \in Ids |-> NoTrack]
    /\ order = <<>>
    /\ musicFiles = {}
    /\ imageFiles = {}
    /\ videoFiles = {}
    /\ ledger = <<>>
    /\ cpData = NoCheckpoint
    /\ cpFile = NoCheckpoint
    /\ alias = FALSE
    /\ pc = "idle"
    /\ fn = "run"
    /\ entry = "run"
    /\ opts = NoOptions
    /\ stages_result = {}
    /\ track_ids = <<>>
    /\ idx = 1
    /\ completed_tracks = <<>>
    /\ results = <<>>
    /\ batchStage = "none"
    /\ render_force = FALSE
    /\ resume_stage = ""
    /\ rCompleted = {}
    /\ rPending = <<>>
    /\ result = NoResult
    /\ invoked = <<>>
    /\ progress = <<>>
    /\ ran = {}
    /\ cancelled = FALSE
    /\ intr = NoIntr
    /\ failures = 0
    /\ calls = 0

\* ---- TrackDB in full, before anything was stored
EmptyTracks == [id \in Ids |-> NoRecord]

NoFile == [kind |-> "absent", tracks |-> EmptyTracks, total_tracks |-> 0]

\* a file that is not valid JSON: cut short by a crash while it was written
CorruptFile == [kind |-> "corrupt", tracks |-> EmptyTracks, total_tracks |-> 0]

\* what save() writes: the tracks and metadata.total_tracks = len(tracks)
Snapshot(tr) ==
    [kind |-> "ok", tracks |-> tr,
     total_tracks |-> Cardinality({id \in Ids : tr[id].present})]

\* status argument of sync_with_db when no file is found
NoneSeen == [music |-> "absent", image |-> "absent", video |-> "absent"]

NoOp == [name |-> "none", id |-> 0, ret |-> "none", fault |-> "none",
         recovered |-> FALSE, saved |-> FALSE, before |-> EmptyTracks,
         updates |-> {}, seen |-> NoneSeen, stage |-> "none", file |-> NoFile]

\* TrackDB(db_path): nothing loaded, no file; budget store operations allowed
InitTrackDB(budget) ==
    /\ db = [loaded |-> FALSE, tracks |-> EmptyTracks]
    /\ dbFile = NoFile
    /\ dbBak = NoFile
    /\ now = 0
    /\ op = NoOp
    /\ crash = [pending |-> FALSE, snap |-> NoFile]
    /\ lastChange = [id \in Ids |-> 0]
    /\ appended = [id \in Ids |-> <<>>]
    /\ opBudget = budget

\* the stages _handle_track_error records failures for
LedgerStages == {"image", "video"}

NoDrain == [n |-> 0, tasks |-> <<>>, live |-> FALSE, before |-> <<>>]

\* FailedTasksDB(db_path): nothing recorded, nothing handed out
\* name and prev: the call and the one before it; arg: what a save was given;
\* file: checkpoint.json as a clear found it
NoCpOp == [name |-> "none", prev |-> "none", arg |-> NoCheckpoint, file |-> NoCheckpoint]

\* the processes that share the data directory
Procs == {1, 2}

\* the three lock files: tracks.json.lock, failed_tasks.json.lock,
\* checkpoint.json.lock
Locks == {"tracks", "failed", "checkpoint"}

\* no process holds a lock or is inside an operation
\* held: the locks each process holds; prog: the acquisitions and releases
\* its current store operation still has to make; twice: some process asked
\* for a lock it was holding
NoLocks ==
    [held |-> [p \in Procs |-> {}], prog |-> [p \in Procs |-> <<>>],
     twice |-> FALSE]

\* a second process that has loaded nothing; no add made; no lock held
InitProcs ==
    /\ peer = [loaded |-> FALSE, tracks |-> EmptyTracks]
    /\ adds = <<>>
    /\ lk = NoLocks

\* FailedTasksDB(db_path), CheckpointDB(db_path): nothing recorded, nothing
\* handed out, no call made
InitLedgerHist ==
    /\ lastRecorded = [pr \in Ids \X LedgerStages |-> [msg |-> "none", n |-> 0]]
    /\ drained = NoDrain
    /\ cpOp = NoCpOp

Init == InitPipeline /\ InitTrackDB(0) /\ InitLedgerHist /\ InitProcs

\* ------------------------------------------------------------ environment
\* the user drops an audio file into the music folder
AddMusicFile(id) ==
    /\ pc = "idle"
    /\ id \notin musicFiles
    /\ musicFiles' = musicFiles \cup {id}
    /\ UNCHANGED dbVars
    /\ intr' = NoIntr
    /\ UNCHANGED <<tracks, order, imageFiles, videoFiles, ledger, cpVars, frameVars,
                   invoked, progress, ran, cancelled, failures, calls>>

\* SunoClient.create_track succeeds: add_track(id) with the default record,
\* the audio file downloaded, music completed
CreateTrack(id) ==
    /\ pc = "idle"
    /\ ~has_track(tracks, id)
    /\ id \notin musicFiles
    /\ tracks' = add_track(tracks, id,
                     [DefaultTrack EXCEPT !.music = "completed", !.music_path = TRUE])
    /\ order' = add_order(tracks, order, id)
    /\ musicFiles' = musicFiles \cup {id}
    /\ UNCHANGED dbVars
    /\ intr' = NoIntr
    /\ UNCHANGED <<imageFiles, videoFiles, ledger, cpVars, frameVars,
                   invoked, progress, ran, cancelled, failures, calls>>

\* the process ends and a new one starts: CheckpointDB._data is None again
Restart ==
    /\ pc = "idle"
    /\ cpData.present
    /\ cpData' = NoCheckpoint
    /\ alias' = FALSE
    /\ UNCHANGED <<storeVars, ledger, cpFile, frameVars, histVars, dbVars>>

\* ------------------------------------------------------------------ calls
Call(f, o) ==
    /\ pc = "idle"
    /\ calls < MaxCalls
    /\ calls' = calls + 1
    /\ pc' = IF f = "run" THEN "run_enter" ELSE "resume_enter"
    /\ fn' = f
    /\ entry' = f
    /\ opts' = o
    /\ UNCHANGED <<storeVars, ledger, cpVars, stages_result, track_ids, idx,
                   completed_tracks, results, batchStage, render_force,
                   resume_stage, rCompleted, rPending, result,
                   invoked, progress, ran, cancelled, intr, dbVars, failures>>

CallRun(o) == Call("run", o)
CallResume(o) == Call("resume", o)

\* the caller has the result; the frame is gone
Return ==
    /\ pc = "done"
    /\ pc' = "idle"
    /\ fn' = "run"
    /\ entry' = "run"
    /\ opts' = NoOptions
    /\ stages_result' = {}
    /\ track_ids' = <<>>
    /\ idx' = 1
    /\ completed_tracks' = <<>>
    /\ results' = <<>>
    /\ batchStage' = "none"
    /\ render_force' = FALSE
    /\ resume_stage' = ""
    /\ rCompleted' = {}
    /\ rPending' = <<>>
    /\ result' = NoResult
    /\ invoked' = <<>>
    /\ progress' = <<>>
    /\ ran' = {}
    /\ cancelled' = FALSE
    /\ UNCHANGED dbVars
    /\ intr' = IF result.kind = "interrupted" THEN intr ELSE NoIntr
    /\ alias' = FALSE
    /\ UNCHANGED <<storeVars, ledger, cpData, cpFile, failures, calls>>

\* ------------------------------------------------------------ Pipeline.run
\* variant of the guard's result that omits the "checkpoint" key
IncompleteResult_bare(cp) ==
    [NoResult EXCEPT !.kind = "failure", !.error = "incomplete"]

\* the result of the incomplete-run guard: failure, with the checkpoint attached
IncompleteResult(cp) ==
    [NoResult EXCEPT !.kind = "failure", !.error = "incomplete", !.checkpoint = cp]

\* run, up to the try block: the incomplete-run guard and the resume delegation
RunEnter ==
    /\ pc = "run_enter"
    /\ cpData' = load_data(cpData, cpFile)
    /\ IF has_checkpoint(cpData, cpFile) /\ ~opts.auto_resume
       THEN /\ pc' = "done"
            /\ result' = IncompleteResult(load(cpData, cpFile))
            /\ UNCHANGED <<fn, stages_result>>
       ELSE IF opts.auto_resume
       THEN /\ pc' = "resume_enter"
            /\ fn' = "resume"
            /\ UNCHANGED <<result, stages_result>>
       ELSE /\ pc' = "scan"
            /\ stages_result' = {}
            /\ UNCHANGED <<fn, result>>
    /\ UNCHANGED <<storeVars, ledger, cpFile, alias, entry, opts, track_ids, idx,
                   completed_tracks, results, batchStage, render_force,
                   resume_stage, rCompleted, rPending, histVars, dbVars>>

\* 1. scan stage, the scan checkpoint, 2. the music stage (a no-op)
Scan ==
    /\ pc = "scan"
    /\ fn = "run"
    /\ LET tr  == full_scan_tracks(tracks, musicFiles, imageFiles, videoFiles)
           ord == full_scan_order(tracks, order, musicFiles)
           cp  == save_checkpoint("scan", 0, get_all_tracks(ord), <<>>)
       IN  /\ tracks' = tr
           /\ order' = ord
           /\ stages_result' =
                  {<<"scan", <<Cardinality(musicFiles),
                               Len(detect_new_tracks(tracks, musicFiles)),
                               Len(detect_missing_files(tr, ord, musicFiles))>>>>,
                   <<"music", <<0, Cardinality(musicFiles), 0>>>>}
           /\ cpData' = cp
           /\ cpFile' = cp
           /\ alias' = FALSE
    /\ ran' = ran \cup {"scan"}
    /\ pc' = "img_select"
    /\ UNCHANGED <<musicFiles, imageFiles, videoFiles, ledger, fn, entry, opts,
                   track_ids, idx, completed_tracks, results, batchStage,
                   render_force, resume_stage, rCompleted, rPending, result,
                   invoked, progress, cancelled, intr, dbVars, failures, calls>>

\* a batch starts over the list ids with a fresh live list completed
StartBatch(stage, ids, completed, force) ==
    /\ track_ids' = ids
    /\ idx' = 1
    /\ completed_tracks' = completed
    /\ results' = <<>>
    /\ progress' = <<>>
    /\ batchStage' = stage
    /\ render_force' = force
    /\ alias' = FALSE

\* a stage that processes nothing
NoBatch ==
    /\ track_ids' = <<>>
    /\ idx' = 1
    /\ completed_tracks' = <<>>
    /\ results' = <<>>
    /\ progress' = <<>>
    /\ batchStage' = "none"
    /\ render_force' = FALSE
    /\ alias' = FALSE

\* 3. image stage of run: selection, limit
RunImageSelect ==
    /\ pc = "img_select"
    /\ fn = "run"
    /\ LET ids == ApplyLimit(get_tracks_needing_image(tracks, order), opts)
       IN  IF ~opts.skip_images /\ ids # <<>>
           THEN /\ StartBatch("image", ids, <<>>, FALSE)
                /\ pc' = "img_call"
                /\ UNCHANGED stages_result
           ELSE /\ NoBatch
                /\ pc' = "vid_select"
                /\ stages_result' = SetKey(stages_result, "images", NoCounts)
    /\ ran' = IF opts.skip_images THEN ran ELSE ran \cup {"images"}
    /\ UNCHANGED <<storeVars, ledger, cpData, cpFile, fn, entry, opts,
                   resume_stage, rCompleted, rPending, result,
                   invoked, cancelled, intr, dbVars, failures, calls>>

\* generate_batch: the per-item operation of item i
ImageCall ==
    /\ pc = "img_call"
    /\ \E ok \in BOOLEAN :
          /\ ok \/ failures < MaxFailures
          /\ LET id == track_ids[idx]
                 g  == generate_for_track(tracks, imageFiles, id, FALSE, ok)
             IN  /\ tracks' = g.tracks
                 /\ imageFiles' = g.files
                 /\ results' = Append(results, g.res)
                 /\ invoked' = Append(invoked,
                        [stage |-> "image", track_id |-> id,
                         status |-> StatusOf(g.res), collab |-> g.collab])
                 /\ failures' = IF g.collab /\ ~g.res.success THEN failures + 1 ELSE failures
    /\ pc' = "img_cb"
    /\ UNCHANGED <<order, musicFiles, videoFiles, ledger, cpVars, fn, entry, opts,
                   stages_result, track_ids, idx, completed_tracks, batchStage,
                   render_force, resume_stage, rCompleted, rPending, result,
                   progress, ran, cancelled, intr, dbVars, calls>>

\* variant whose loop stops at the first failed item
NextAfterItem_abort(i, n, st, nextItem, afterBatch) ==
    IF i = n \/ st = "failed" THEN afterBatch ELSE nextItem

\* the for loop of generate_batch / render_batch: where the batch goes after
\* item i of n, whose status was st
NextAfterItem(i, n, st, nextItem, afterBatch) ==
    IF i = n THEN afterBatch ELSE nextItem

\* the progress callback of a batch (image_progress / video_progress), called
\* by the batch for item i with the item's status
ProgressCallback(stageName, nextItem, afterBatch) ==
    LET id   == track_ids[idx]
        st   == StatusOf(results[idx])
        comp == IF st = "success" THEN Append(completed_tracks, id) ELSE completed_tracks
        pend == Filter(track_ids, Range(comp))
        save == (idx % CheckpointEvery = 0) \/ idx = Len(track_ids)
        cp   == save_checkpoint(stageName, id, comp, pend)
    IN  /\ progress' = Append(progress,
               [current |-> idx, total |-> Len(track_ids), track_id |-> id, status |-> st])
        /\ completed_tracks' = comp
        /\ cpData' = IF save THEN cp
                     ELSE IF alias THEN [cpData EXCEPT !.completed_tracks = comp]
                     ELSE cpData
        /\ cpFile' = IF save THEN cp ELSE cpFile
        /\ alias' = (alias \/ save)
        /\ idx' = idx + 1
        /\ pc' = NextAfterItem(idx, Len(track_ids), st, nextItem, afterBatch)

ImageProgress ==
    /\ pc = "img_cb"
    /\ ProgressCallback("images", "img_call", "img_errors")
    /\ UNCHANGED <<storeVars, ledger, fn, entry, opts, stages_result, track_ids,
                   results, batchStage, render_force, resume_stage, rCompleted,
                   rPending, result, invoked, ran, cancelled, intr, dbVars, failures, calls>>

\* after generate_batch: _handle_track_error for every failed result
ImageErrors ==
    /\ pc = "img_errors"
    /\ tracks' = handle_failures_tracks(tracks, FailedOf(results), "image")
    /\ ledger' = handle_failures_ledger(ledger, FailedOf(results), "image")
    /\ stages_result' = SetKey(stages_result, "images", StageCounts(results))
    /\ pc' = "vid_select"
    /\ UNCHANGED <<order, musicFiles, imageFiles, videoFiles, cpVars, fn, entry, opts,
                   track_ids, idx, completed_tracks, results, batchStage,
                   render_force, resume_stage, rCompleted, rPending, result, histVars, dbVars>>

\* 4. video stage of run: selection, limit, render_options
RunVideoSelect ==
    /\ pc = "vid_select"
    /\ fn = "run"
    /\ LET ids == ApplyLimit(get_tracks_needing_video(tracks, order), opts)
       IN  IF ~opts.skip_videos /\ ids # <<>>
           THEN /\ StartBatch("video", ids, <<>>, opts.force)
                /\ pc' = "vid_call"
                /\ UNCHANGED stages_result
           ELSE /\ NoBatch
                /\ pc' = "finish"
                /\ stages_result' = SetKey(stages_result, "videos", NoCounts)
    /\ ran' = IF opts.skip_videos THEN ran ELSE ran \cup {"videos"}
    /\ UNCHANGED <<storeVars, ledger, cpData, cpFile, fn, entry, opts,
                   resume_stage, rCompleted, rPending, result,
                   invoked, cancelled, intr, dbVars, failures, calls>>

\* render_batch: the per-item operation of item i
VideoCall ==
    /\ pc = "vid_call"
    /\ \E ok \in BOOLEAN :
          /\ ok \/ failures < MaxFailures
          /\ LET id == track_ids[idx]
                 g  == render_for_track(tracks, musicFiles, imageFiles, videoFiles,
                                        id, render_force, ok)
             IN  /\ tracks' = g.tracks
                 /\ videoFiles' = g.files
                 /\ results' = Append(results, g.res)
                 /\ invoked' = Append(invoked,
                        [stage |-> "video", track_id |-> id,
                         status |-> StatusOf(g.res), collab |-> g.collab])
                 /\ failures' = IF g.collab /\ ~g.res.success THEN failures + 1 ELSE failures
    /\ pc' = "vid_cb"
    /\ UNCHANGED <<order, musicFiles, imageFiles, ledger, cpVars, fn, entry, opts,
                   stages_result, track_ids, idx, completed_tracks, batchStage,
                   render_force, resume_stage, rCompleted, rPending, result,
                   progress, ran, cancelled, intr, dbVars, calls>>

VideoProgress ==
    /\ pc = "vid_cb"
    /\ ProgressCallback("videos", "vid_call", "vid_errors")
    /\ UNCHANGED <<storeVars, ledger, fn, entry, opts, stages_result, track_ids,
                   results, batchStage, render_force, resume_stage, rCompleted,
                   rPending, result, invoked, ran, cancelled, intr, dbVars, failures, calls>>

\* the keys resume_from_checkpoint adds for the stages it did not run
ResumeTail(sr) ==
    LET base == SetKey(SetKey(sr, "scan", NoCounts), "music", NoCounts)
    IN  IF resume_stage = "videos" THEN SetKey(base, "images", NoCounts) ELSE base

\* after render_batch: _handle_track_error for every failed result
VideoErrors ==
    /\ pc = "vid_errors"
    /\ tracks' = handle_failures_tracks(tracks, FailedOf(results), "video")
    /\ ledger' = handle_failures_ledger(ledger, FailedOf(results), "video")
    /\ stages_result' =
           LET sr == SetKey(stages_result, "videos", StageCounts(results))
           IN  IF fn = "resume" THEN ResumeTail(sr) ELSE sr
    /\ pc' = "finish"
    /\ UNCHANGED <<order, musicFiles, imageFiles, videoFiles, cpVars, fn, entry, opts,
                   track_ids, idx, completed_tracks, results, batchStage,
                   render_force, resume_stage, rCompleted, rPending, result, histVars, dbVars>>

\* 5. report, clear the checkpoint, return the success result
Finish(resumed) ==
    /\ pc = "finish"
    /\ result' = [NoResult EXCEPT !.kind = "success", !.stages = stages_result,
                                  !.summary = Summary(tracks, ledger),
                                  !.resumed = resumed]
    /\ cpData' = clear_checkpoint(cpData, cpFile)
    /\ cpFile' = clear_checkpoint_file(cpData, cpFile)
    /\ pc' = "done"
    /\ UNCHANGED <<storeVars, ledger, alias, fn, entry, opts, stages_result, track_ids,
                   idx, completed_tracks, results, batchStage, render_force,
                   resume_stage, rCompleted, rPending, histVars, dbVars>>

RunFinish == fn = "run" /\ Finish(FALSE)

\* ------------------------------------------- Pipeline.resume_from_checkpoint
\* variant that resumes the whole pending list
Remaining_all(pending, completed) == pending

\* pending_tracks without the completed ones, in pending order
Remaining(pending, completed) == Filter(pending, completed)

\* resume_from_checkpoint up to the branch on the checkpoint's stage; the scan
\* branch clears the checkpoint and calls run(options)
\* variant that takes a stage name it does not recognise for the images stage
ResumeDispatch_images(stage) ==
    IF stage = "videos" THEN "vid_select" ELSE "img_select"

\* the if / elif chain over resume_stage (the scan branch is handled before):
\* a name that is none of the recognised ones falls through to the report
ResumeDispatch(stage) ==
    CASE stage = "images" -> "img_select"
      [] stage = "videos" -> "vid_select"
      [] OTHER -> "finish"

ResumeEnter ==
    /\ pc = "resume_enter"
    /\ LET cp == load(cpData, cpFile)
           d  == load_data(cpData, cpFile)
       IN  IF ~cp.present
           THEN /\ pc' = "done"
                /\ result' = [NoResult EXCEPT !.kind = "failure", !.error = "no_checkpoint"]
                /\ cpData' = d
                /\ UNCHANGED <<cpFile, fn, stages_result, resume_stage, rCompleted, rPending>>
           ELSE /\ resume_stage' = cp.current_stage
                /\ rCompleted' = Range(cp.completed_tracks)
                /\ rPending' = cp.pending_tracks
                /\ stages_result' = {}
                /\ UNCHANGED result
                /\ IF cp.current_stage = "scan"
                   THEN /\ cpData' = clear_checkpoint(d, cpFile)
                        /\ cpFile' = clear_checkpoint_file(d, cpFile)
                        /\ pc' = "run_enter"
                        /\ fn' = "run"
                   ELSE /\ cpData' = d
                        /\ pc' = ResumeDispatch(cp.current_stage)
                        /\ UNCHANGED <<cpFile, fn>>
    /\ UNCHANGED <<storeVars, ledger, alias, entry, opts, track_ids, idx,
                   completed_tracks, results, batchStage, render_force, histVars, dbVars>>

\* images branch: the batch over the remaining items; completed_list is
\* list(set(...)), whose order the set decides
ResumeImageSelect ==
    /\ pc = "img_select"
    /\ fn = "resume"
    /\ LET remaining == Remaining(rPending, rCompleted)
       IN  IF remaining # <<>>
           THEN /\ \E completed_list \in Orderings(rCompleted) :
                       StartBatch("image", remaining, completed_list, FALSE)
                /\ pc' = "img_call"
                /\ UNCHANGED stages_result
           ELSE /\ NoBatch
                /\ pc' = "vid_select"
                /\ stages_result' = SetKey(stages_result, "images", NoCounts)
    /\ ran' = ran \cup {"images"}
    /\ UNCHANGED <<storeVars, ledger, cpData, cpFile, fn, entry, opts,
                   resume_stage, rCompleted, rPending, result,
                   invoked, cancelled, intr, dbVars, failures, calls>>

\* images branch, continued: the video stage over the tracks needing a video
ResumeVideoSelect ==
    /\ pc = "vid_select"
    /\ fn = "resume"
    /\ resume_stage = "images"
    /\ LET ids == get_tracks_needing_video(tracks, order)
       IN  IF ~opts.skip_videos /\ ids # <<>>
           THEN /\ StartBatch("video", ids, <<>>, FALSE)
                /\ pc' = "vid_call"
                /\ UNCHANGED stages_result
           ELSE /\ NoBatch
                /\ pc' = "finish"
                /\ stages_result' =
                       ResumeTail(IF opts.skip_videos THEN stages_result
                                  ELSE SetKey(stages_result, "videos", NoCounts))
    /\ ran' = IF opts.skip_videos THEN ran ELSE ran \cup {"videos"}
    /\ UNCHANGED <<storeVars, ledger, cpData, cpFile, fn, entry, opts,
                   resume_stage, rCompleted, rPending, result,
                   invoked, cancelled, intr, dbVars, failures, calls>>

\* videos branch: the batch over the remaining items
ResumeVideosBranch ==
    /\ pc = "vid_select"
    /\ fn = "resume"
    /\ resume_stage = "videos"
    /\ LET remaining == Remaining(rPending, rCompleted)
       IN  IF remaining # <<>>
           THEN /\ \E completed_list \in Orderings(rCompleted) :
                       StartBatch("video", remaining, completed_list, FALSE)
                /\ pc' = "vid_call"
                /\ UNCHANGED stages_result
           ELSE /\ NoBatch
                /\ pc' = "finish"
                /\ stages_result' = ResumeTail(SetKey(stages_result, "videos", NoCounts))
    /\ ran' = ran \cup {"videos"}
    /\ UNCHANGED <<storeVars, ledger, cpData, cpFile, fn, entry, opts,
                   resume_stage, rCompleted, rPending, result,
                   invoked, cancelled, intr, dbVars, failures, calls>>

ResumeFinish == fn = "resume" /\ Finish(TRUE)

\* ------------------------------------------------ interruption and failure
\* the stage name the KeyboardInterrupt handler of run derives from stages_result
InterruptStage(sr) ==
    IF HasKey(sr, "images") THEN "images"
    ELSE IF HasKey(sr, "videos") THEN "videos"
    ELSE "unknown"

\* the checkpoint the KeyboardInterrupt handler of run saves
InterruptCheckpoint(sr) == save_checkpoint(InterruptStage(sr), 0, <<>>, <<>>)

\* what a run interrupted at position p had done in the stage in progress
IntrOf(p) ==
    IF p \in {"img_call", "img_cb", "vid_call", "vid_cb"}
    THEN LET done == {results[i].track_id : i \in {j \in 1..Len(results) :
                                                     StatusOf(results[j]) = "success"}}
         IN  [stage |-> IF p \in {"img_call", "img_cb"} THEN "images" ELSE "videos",
              done |-> done, todo |-> Range(track_ids) \ done]
    ELSE NoIntr

\* operator cancel (KeyboardInterrupt) inside the try block of run
RunInterrupt ==
    /\ pc \in Body
    /\ fn = "run"
    /\ cpData' = InterruptCheckpoint(stages_result)
    /\ cpFile' = InterruptCheckpoint(stages_result)
    /\ alias' = FALSE
    /\ result' = [NoResult EXCEPT !.kind = "interrupted", !.error = "user_interrupt",
                                  !.at = pc]
    /\ cancelled' = TRUE
    /\ UNCHANGED dbVars
    /\ intr' = IntrOf(pc)
    /\ pc' = "done"
    /\ UNCHANGED <<storeVars, ledger, fn, entry, opts, stages_result, track_ids, idx,
                   completed_tracks, results, batchStage, render_force, resume_stage,
                   rCompleted, rPending, invoked, progress, ran, failures, calls>>

\* operator cancel inside resume_from_checkpoint: no handler, the
\* KeyboardInterrupt leaves the call
ResumeInterrupt ==
    /\ pc \in Body
    /\ fn = "resume"
    /\ result' = [NoResult EXCEPT !.kind = "raised", !.error = "KeyboardInterrupt",
                                  !.at = pc]
    /\ cancelled' = TRUE
    /\ pc' = "done"
    /\ UNCHANGED <<storeVars, ledger, cpVars, fn, entry, opts, stages_result, track_ids,
                   idx, completed_tracks, results, batchStage, render_force,
                   resume_stage, rCompleted, rPending, invoked, progress, ran, intr, dbVars,
                   failures, calls>>

\* the result of the except Exception handlers
ExceptionResult(sr, p) ==
    [NoResult EXCEPT !.kind = "failure", !.error = "exception", !.stages = sr, !.at = p]

\* variant whose handler clears the checkpoint as the success path does
ExceptionCheckpoint_clear(d) == [d EXCEPT !.is_running = FALSE]

\* the checkpoint data after an except Exception handler ran
ExceptionCheckpoint(d) == d

\* an unexpected exception inside the try block of run or of
\* resume_from_checkpoint
UnexpectedException ==
    /\ pc \in Body
    /\ result' = ExceptionResult(stages_result, pc)
    /\ cpData' = ExceptionCheckpoint(cpData)
    /\ cpFile' = ExceptionCheckpoint(cpFile)
    /\ pc' = "done"
    /\ UNCHANGED <<storeVars, ledger, alias, fn, entry, opts, stages_result, track_ids,
                   idx, completed_tracks, results, batchStage, render_force,
                   resume_stage, rCompleted, rPending, histVars, dbVars>>

\* ---------------------------------------------- Pipeline.retry_failed_tasks
\* the stage argument: "none" stands for None
RetryStages == {"none", "image", "video"}

\* variant that ignores the stage filter
RetryTasks_all(ld, stage) == get_failed_tasks(ld)

\* failed_tasks after the stage filter
RetryTasks(ld, stage) ==
    IF stage = "none" THEN get_failed_tasks(ld)
    ELSE SelectSeq(get_failed_tasks(ld), LAMBDA t : t.stage = stage)

\* one iteration of the loop: the single-item retry of task with force, the
\* removal of the entry when it succeeded, the per-entry result
RetryOne(st, task, ok) ==
    LET g == IF task.stage = "image"
             THEN generate_for_track(st.tracks, st.imageFiles, task.track_id, TRUE, ok)
             ELSE render_for_track(st.tracks, st.musicFiles, st.imageFiles, st.videoFiles,
                                   task.track_id, TRUE, ok)
    IN  [tracks     |-> g.tracks,
         musicFiles |-> st.musicFiles,
         imageFiles |-> IF task.stage = "image" THEN g.files ELSE st.imageFiles,
         videoFiles |-> IF task.stage = "video" THEN g.files ELSE st.videoFiles,
         ledger     |-> IF g.res.success
                        THEN remove_failed_task(st.ledger, task.track_id, task.stage)
                        ELSE st.ledger,
         retried    |-> IF g.res.success THEN st.retried + 1 ELSE st.retried,
         results    |-> Append(st.results,
                            [track_id |-> task.track_id, stage |-> task.stage,
                             success |-> g.res.success]),
         invoked    |-> Append(st.invoked,
                            [stage |-> task.stage, track_id |-> task.track_id,
                             status |-> StatusOf(g.res), collab |-> g.collab]),
         failures   |-> IF g.collab /\ ~g.res.success THEN st.failures + 1
                        ELSE st.failures]

\* the for loop over failed_tasks; oks[i] is the collaborator's outcome for
\* task i
RECURSIVE RetryLoop(_, _, _, _)
RetryLoop(st, tasks, oks, i) ==
    IF i > Len(tasks) THEN st
    ELSE RetryLoop(RetryOne(st, tasks[i], oks[i]), tasks, oks, i + 1)

\* variant of the retry path that clears the checkpoint when it returns
RetryCheckpoint_clear ==
    /\ cpData' = clear_checkpoint(cpData, cpFile)
    /\ cpFile' = clear_checkpoint_file(cpData, cpFile)
    /\ alias' = alias

\* what retry_failed_tasks does to the Checkpoint Store: it makes no call on
\* self.checkpoint_db, and neither do the per-item operations it calls
RetryCheckpoint == UNCHANGED cpVars

\* retry_failed_tasks(stage), from the call to the returned result
RetryFailedTasks(stage) ==
    /\ pc = "idle"
    /\ calls < MaxCalls
    /\ LET tasks == RetryTasks(ledger, stage)
           st0   == [tracks |-> tracks, musicFiles |-> musicFiles,
                     imageFiles |-> imageFiles, videoFiles |-> videoFiles,
                     ledger |-> ledger, retried |-> 0, results |-> <<>>,
                     invoked |-> <<>>, failures |-> failures]
       IN  \E oks \in [1..Len(tasks) -> BOOLEAN] :
              LET out == RetryLoop(st0, tasks, oks, 1)
              IN  /\ out.failures <= MaxFailures
                  /\ tracks' = out.tracks
                  /\ imageFiles' = out.imageFiles
                  /\ videoFiles' = out.videoFiles
                  /\ ledger' = out.ledger
                  /\ invoked' = out.invoked
                  /\ failures' = out.failures
                  /\ result' = [NoResult EXCEPT !.kind = "success",
                                                !.total = Len(tasks),
                                                !.retried = out.retried,
                                                !.results = out.results]
    /\ calls' = calls + 1
    /\ pc' = "done"
    /\ fn' = "retry"
    /\ entry' = "retry"
    /\ batchStage' = stage
    /\ UNCHANGED dbVars
    /\ intr' = NoIntr
    /\ RetryCheckpoint
    /\ UNCHANGED <<order, musicFiles, opts, stages_result, track_ids, idx,
                   completed_tracks, results, render_force, resume_stage,
                   rCompleted, rPending, progress, ran, cancelled>>

\* ----------------------------------------------------------- specification
Next ==
    \/ \E id \in Ids : AddMusicFile(id)
    \/ \E id \in Ids : CreateTrack(id)
    \/ Restart
    \/ \E o \in OptionSets : CallRun(o)
    \/ \E o \in OptionSets : CallResume(o)
    \/ Return
    \/ RunEnter
    \/ Scan
    \/ RunImageSelect
    \/ ImageCall
    \/ ImageProgress
    \/ ImageErrors
    \/ RunVideoSelect
    \/ VideoCall
    \/ VideoProgress
    \/ VideoErrors
    \/ RunFinish
    \/ ResumeEnter
    \/ ResumeImageSelect
    \/ ResumeVideoSelect
    \/ ResumeVideosBranch
    \/ ResumeFinish
    \/ RunInterrupt
    \/ ResumeInterrupt
    \/ UnexpectedException
    \/ \E stage \in RetryStages : RetryFailedTasks(stage)

Spec == Init /\ [][Next]_vars

\* ------------------------------------- a process that starts on a checkpoint
\* the record of a track of the interrupted batch: created by create_track,
\* then taken through the stages before the checkpoint's stage, and through
\* the checkpoint's stage when the callback has listed it as completed
CheckpointedTrack(stage, isCompleted) ==
    [DefaultTrack EXCEPT
        !.music = "completed", !.music_path = TRUE,
        !.image = IF stage = "videos" \/ isCompleted THEN "completed" ELSE "pending",
        !.image_path = (stage = "videos" \/ isCompleted),
        !.video = IF stage = "videos" /\ isCompleted THEN "completed" ELSE "pending",
        !.video_path = (stage = "videos" /\ isCompleted)]

\* the Failure Ledger when a batch is abandoned: empty, or the entry left by an
\* earlier image failure of an item of done, whose image has since been generated
StaleLedgers(done) ==
    {<<>>} \cup {<<[track_id |-> id, stage |-> "image", error_message |-> ImgErr]>> : id \in done}

\* The state in which an image or video batch over the tracks T was abandoned
\* after a periodic save: the file holds what save_checkpoint wrote (saved,
\* pending), and CheckpointDB._data holds the same dict whose completed_tracks
\* is the callback's live list, to which the items that succeeded after the
\* save (later, still listed as pending) were appended.
InitAbandoned(stale) ==
    \E T \in (SUBSET Ids) \ {{}}, stage \in {"images", "videos"} :
    \E C \in SUBSET T, P \in SUBSET T :
    \E saved \in Orderings(C \ P), later \in Orderings(C \cap P), pending \in Orderings(P) :
        /\ C \cup P = T
        /\ tracks = [id \in Ids |-> IF id \in T THEN CheckpointedTrack(stage, id \in C)
                                    ELSE NoTrack]
        /\ order = SortedSeq(T)
        /\ musicFiles = T
        /\ imageFiles = {id \in T : stage = "videos" \/ id \in C}
        /\ videoFiles = {id \in T : stage = "videos" /\ id \in C}
        /\ ledger \in IF stale
                      THEN StaleLedgers({id \in T : stage = "videos" \/ id \in C})
                      ELSE {<<>>}
        /\ cpFile = save_checkpoint(stage, 0, saved, pending)
        /\ cpData = save_checkpoint(stage, 0, saved \o later, pending)
        /\ alias = FALSE
        /\ pc = "idle"
        /\ fn = "run"
        /\ entry = "run"
        /\ opts = NoOptions
        /\ stages_result = {}
        /\ track_ids = <<>>
        /\ idx = 1
        /\ completed_tracks = <<>>
        /\ results = <<>>
        /\ batchStage = "none"
        /\ render_force = FALSE
        /\ resume_stage = ""
        /\ rCompleted = {}
        /\ rPending = <<>>
        /\ result = NoResult
        /\ invoked = <<>>
        /\ progress = <<>>
        /\ ran = {}
        /\ cancelled = FALSE
        /\ intr = NoIntr
        /\ failures = 0
        /\ calls = 0
        /\ InitTrackDB(0)
        /\ InitLedgerHist
        /\ InitProcs

\* the batch was abandoned with an empty Failure Ledger
InitCkpt == InitAbandoned(FALSE)

SpecCkpt == InitCkpt /\ [][Next]_vars

\* the batch was abandoned while the Failure Ledger may still hold the entry of
\* an image failure of an earlier run: the image stage that later generated the
\* image does not remove the entry
InitStale == InitAbandoned(TRUE)

SpecStale == InitStale /\ [][Next]_vars

\* ------------------------------------------------ TrackDB, its operations
\* how a save() can end: written; the lock not acquired within 5 s; the
\* process killed while _backup_file copies; killed while json.dump writes
SaveOutcomes == {"ok", "timeout", "crash_backup", "crash_write"}

\* variant of save() that writes without copying tracks.json first
TrackDB_save_nobackup(tr, file, bak, out) ==
    IF out \in {"ok", "timeout"}
    THEN [loaded |-> TRUE, tracks |-> tr,
          file |-> IF out = "ok" THEN Snapshot(tr) ELSE file,
          bak |-> bak, ret |-> IF out = "ok" THEN "true" ELSE "false"]
    ELSE [loaded |-> FALSE, tracks |-> EmptyTracks,
          file |-> IF out = "crash_write" THEN CorruptFile ELSE file,
          bak |-> bak, ret |-> "crash"]

\* save() with self._data holding tr: _backup_file() first, when tracks.json
\* exists, then the write under the lock; every exception, the lock Timeout
\* included, is caught and answered with False
TrackDB_save(tr, file, bak, out) ==
    LET copied == IF file.kind # "absent" THEN file ELSE bak
    IN  CASE out = "ok" ->
                [loaded |-> TRUE, tracks |-> tr, file |-> Snapshot(tr),
                 bak |-> copied, ret |-> "true"]
          [] out = "timeout" ->
                [loaded |-> TRUE, tracks |-> tr, file |-> file,
                 bak |-> copied, ret |-> "false"]
          [] out = "crash_backup" ->
                [loaded |-> FALSE, tracks |-> EmptyTracks, file |-> file,
                 bak |-> IF file.kind # "absent" THEN CorruptFile ELSE bak,
                 ret |-> "crash"]
          [] out = "crash_write" ->
                [loaded |-> FALSE, tracks |-> EmptyTracks, file |-> CorruptFile,
                 bak |-> copied, ret |-> "crash"]

\* load() without a lock timeout: the cached data; an empty structure, saved,
\* when there is no file; the file's data; for a file that is not JSON,
\* _backup_file() (the corrupt file copied over tracks.json.bak), an empty
\* structure and save()
TrackDB_load(mem, file, bak) ==
    IF mem.loaded THEN [tracks |-> mem.tracks, file |-> file, bak |-> bak]
    ELSE IF file.kind = "absent"
         THEN [tracks |-> EmptyTracks, file |-> Snapshot(EmptyTracks), bak |-> bak]
    ELSE IF file.kind = "corrupt"
         THEN [tracks |-> EmptyTracks, file |-> Snapshot(EmptyTracks), bak |-> file]
    ELSE [tracks |-> file.tracks, file |-> file, bak |-> bak]

\* ids whose record an operation changed, updated_at aside
ChangedIds(before, after) ==
    {id \in Ids : [after[id] EXCEPT !.updated_at = 0] # [before[id] EXCEPT !.updated_at = 0]}

\* an operation that returns r without calling save()
EndsUnsaved(L, o, r) ==
    /\ db' = [loaded |-> TRUE, tracks |-> L.tracks]
    /\ dbFile' = L.file
    /\ dbBak' = L.bak
    /\ op' = [o EXCEPT !.ret = r, !.before = L.tracks,
                       !.recovered = crash.pending /\ ~db.loaded]
    /\ crash' = [crash EXCEPT !.pending = FALSE]
    /\ now' = now + 1
    /\ opBudget' = opBudget - 1

\* an operation that leaves tr in self._data and returns self.save()
EndsSaved(L, tr, out, o) ==
    LET S == TrackDB_save(tr, L.file, L.bak, out)
    IN  /\ db' = [loaded |-> S.loaded, tracks |-> S.tracks]
        /\ dbFile' = S.file
        /\ dbBak' = S.bak
        /\ op' = [o EXCEPT !.ret = S.ret, !.before = L.tracks, !.saved = TRUE,
                           !.file = L.file,
                           !.fault = IF out = "ok" THEN "none" ELSE out,
                           !.recovered = crash.pending /\ ~db.loaded]
        /\ crash' = IF S.ret = "crash" THEN [pending |-> TRUE, snap |-> L.file]
                    ELSE [crash EXCEPT !.pending = FALSE]
        /\ now' = now + 1
        /\ opBudget' = opBudget - 1

\* a read (get_track, get_all_tracks) by a process that has nothing loaded:
\* load(); a lock timeout on an existing file is re-raised as RuntimeError
DbLoad(timeout) ==
    /\ opBudget > 0
    /\ ~db.loaded
    /\ timeout => dbFile.kind # "absent"
    /\ IF timeout
       THEN /\ op' = [NoOp EXCEPT !.name = "load", !.ret = "raised", !.fault = "timeout"]
            /\ now' = now + 1
            /\ opBudget' = opBudget - 1
            /\ UNCHANGED <<db, dbFile, dbBak, crash>>
       ELSE EndsUnsaved(TrackDB_load(db, dbFile, dbBak), [NoOp EXCEPT !.name = "load"], "true")
    /\ UNCHANGED <<lastChange, appended>>
    /\ UNCHANGED <<storeVars, ledger, cpVars, frameVars, histVars, ledgerHist, cpHist, procVars>>

\* the initial_data an add_track call is given: None, or register_new_track's
InitialKinds == {"default", "register"}

InitialRecord(kind, t) ==
    IF kind = "default" THEN NewRecord(DefaultFields, t)
    ELSE NewRecord(RegisterFields("p1"), 0)

\* variant of add_track that stores initial_data over an existing record
add_track_overwrite(tr, id, kind, t) == [tr EXCEPT ![id] = InitialRecord(kind, t)]

\* add_track(track_id, initial_data): the tracks after it; unchanged when
\* the id is already a key
add_track_full(tr, id, kind, t) ==
    IF tr[id].present THEN tr ELSE [tr EXCEPT ![id] = InitialRecord(kind, t)]

DbAddTrack(id, kind, out) ==
    LET L  == TrackDB_load(db, dbFile, dbBak)
        t  == now + 1
        o  == [NoOp EXCEPT !.name = "add", !.id = id]
    IN  /\ opBudget > 0
        /\ IF L.tracks[id].present
           THEN /\ out = "ok"
                /\ db' = [loaded |-> TRUE, tracks |-> add_track_full(L.tracks, id, kind, t)]
                /\ dbFile' = L.file
                /\ dbBak' = L.bak
                /\ op' = [o EXCEPT !.ret = "false", !.before = L.tracks,
                                   !.recovered = crash.pending /\ ~db.loaded]
                /\ crash' = [crash EXCEPT !.pending = FALSE]
                /\ now' = now + 1
                /\ opBudget' = opBudget - 1
                /\ UNCHANGED <<lastChange, appended>>
           ELSE /\ EndsSaved(L, add_track_full(L.tracks, id, kind, t), out, o)
                /\ lastChange' = [lastChange EXCEPT ![id] = 0]
                /\ appended' = [appended EXCEPT ![id] = <<>>]
        /\ UNCHANGED <<storeVars, ledger, cpVars, frameVars, histVars, ledgerHist, cpHist, procVars>>

\* the updates dicts handed to update_track: the image generator's on
\* success; an image style given as a mapping; one key of that mapping
Partials ==
    {{<<<<"image", "status">>, "completed">>, <<<<"image", "file_path">>, "p1">>},
     {<<<<"image", "style", "name">>, "a">>, <<<<"image", "style", "tone">>, "b">>},
     {<<<<"image", "style", "name">>, "c">>}}

DbUpdateTrack(id, U, out) ==
    LET L  == TrackDB_load(db, dbFile, dbBak)
        t  == now + 1
        o  == [NoOp EXCEPT !.name = "update", !.id = id, !.updates = U]
    IN  /\ opBudget > 0
        /\ IF ~L.tracks[id].present
           THEN /\ out = "ok"
                /\ EndsUnsaved(L, o, "false")
                /\ UNCHANGED lastChange
           ELSE LET tr == [L.tracks EXCEPT ![id] = TrackDB_update_track(@, U, t)]
                IN  /\ EndsSaved(L, tr, out, o)
                    /\ lastChange' = [i \in Ids |->
                           IF i \in ChangedIds(L.tracks, tr) THEN t ELSE lastChange[i]]
        /\ UNCHANGED appended
        /\ UNCHANGED <<storeVars, ledger, cpVars, frameVars, histVars, ledgerHist, cpHist, procVars>>

DbUpdateStatus(id, stage, status, out) ==
    LET L  == TrackDB_load(db, dbFile, dbBak)
        t  == now + 1
        o  == [NoOp EXCEPT !.name = "status", !.id = id, !.stage = stage]
    IN  /\ opBudget > 0
        /\ IF ~L.tracks[id].present \/ ~HasField(L.tracks[id].fields, stage)
           THEN /\ out = "ok"
                /\ EndsUnsaved(L, o, "false")
                /\ UNCHANGED lastChange
           ELSE LET tr == [L.tracks EXCEPT ![id] = TrackDB_update_status(@, stage, status, t)]
                IN  /\ EndsSaved(L, tr, out, o)
                    /\ lastChange' = [i \in Ids |->
                           IF i \in ChangedIds(L.tracks, tr) THEN t ELSE lastChange[i]]
        /\ UNCHANGED appended
        /\ UNCHANGED <<storeVars, ledger, cpVars, frameVars, histVars, ledgerHist, cpHist, procVars>>

DbAddErrorLog(id, stage, msg, out) ==
    LET L  == TrackDB_load(db, dbFile, dbBak)
        t  == now + 1
        o  == [NoOp EXCEPT !.name = "append", !.id = id, !.stage = stage]
    IN  /\ opBudget > 0
        /\ IF ~L.tracks[id].present
           THEN /\ out = "ok"
                /\ EndsUnsaved(L, o, "false")
                /\ UNCHANGED <<lastChange, appended>>
           ELSE LET tr == [L.tracks EXCEPT ![id] = TrackDB_add_error_log(@, stage, msg, t)]
                IN  /\ EndsSaved(L, tr, out, o)
                    /\ lastChange' = [i \in Ids |->
                           IF i \in ChangedIds(L.tracks, tr) THEN t ELSE lastChange[i]]
                    /\ appended' = [appended EXCEPT ![id] =
                           Append(@, [timestamp |-> t, stage |-> stage, message |-> msg])]
        /\ UNCHANGED <<storeVars, ledger, cpVars, frameVars, histVars, ledgerHist, cpHist, procVars>>

\* what check_file_status can report: nothing; the audio file; audio and an
\* image, as .png or as .jpg; all three
Seen ==
    {NoneSeen,
     [music |-> "p1", image |-> "absent", video |-> "absent"],
     [music |-> "p1", image |-> "p1", video |-> "absent"],
     [music |-> "p1", image |-> "p2", video |-> "absent"],
     [music |-> "p1", image |-> "p1", video |-> "p1"]}

\* variant of sync_with_db that writes the observed state unconditionally
sync_blind(rec, status, t) ==
    TrackDB_update_track(rec,
        {<<<<StageNames[i], "status">>,
           IF status[StageNames[i]] # "absent" THEN "completed" ELSE "pending">> : i \in 1..3},
        t)

\* sync_with_db on a record that exists, when updates is not empty
sync_record(rec, status, t) ==
    TrackDB_update_track(rec, SyncAllUpdates(rec.fields, status), t)

\* sync_with_db(track_id, status): False without a record; update_track when
\* updates is not empty, else True and no write
DbSync(id, status, out) ==
    LET L  == TrackDB_load(db, dbFile, dbBak)
        t  == now + 1
        o  == [NoOp EXCEPT !.name = "sync", !.id = id, !.seen = status]
    IN  /\ opBudget > 0
        /\ IF ~L.tracks[id].present
           THEN /\ out = "ok"
                /\ EndsUnsaved(L, o, "false")
                /\ UNCHANGED lastChange
           ELSE IF SyncAllUpdates(L.tracks[id].fields, status) = {}
           THEN /\ out = "ok"
                /\ EndsUnsaved(L, o, "true")
                /\ UNCHANGED lastChange
           ELSE LET tr == [L.tracks EXCEPT ![id] = sync_record(@, status, t)]
                IN  /\ EndsSaved(L, tr, out, o)
                    /\ lastChange' = [i \in Ids |->
                           IF i \in ChangedIds(L.tracks, tr) THEN t ELSE lastChange[i]]
        /\ UNCHANGED appended
        /\ UNCHANGED <<storeVars, ledger, cpVars, frameVars, histVars, ledgerHist, cpHist, procVars>>

StatusStages == {"image", "video"}
StatusValues == {"completed", "failed"}

\* handle_missing(track_id, "mark_missing"): update_status(id, "music", "missing")
HandleMissing(id, out) == DbUpdateStatus(id, "music", "missing", out)

\* the statuses get_statistics keeps a counter for
StatStatuses == {"completed", "pending", "failed", "processing", "skipped"}

\* track.get(stage, {}).get("status", "pending")
StatStatus(rec, stage) ==
    LET v == Get(rec.fields, <<stage, "status">>)
    IN  IF v = "none" THEN "pending" ELSE v

\* get_statistics(): a status without a counter is not counted
get_statistics(tr) ==
    LET all == {id \in Ids : tr[id].present}
    IN  [total_tracks |-> Cardinality(all),
         counts |-> [stage \in Stages |-> [st \in StatStatuses |->
                        Cardinality({id \in all : StatStatus(tr[id], stage) = st})]],
         fully_completed |->
             Cardinality({id \in all :
                 \A stage \in Stages : Get(tr[id].fields, <<stage, "status">>) = "completed"})]

NextStore ==
    \/ \E timeout \in BOOLEAN : DbLoad(timeout)
    \/ \E id \in Ids, kind \in InitialKinds, out \in SaveOutcomes : DbAddTrack(id, kind, out)
    \/ \E id \in Ids, U \in Partials, out \in SaveOutcomes : DbUpdateTrack(id, U, out)
    \/ \E id \in Ids, stage \in StatusStages, status \in StatusValues, out \in SaveOutcomes :
          DbUpdateStatus(id, stage, status, out)
    \/ \E id \in Ids, out \in SaveOutcomes : DbAddErrorLog(id, "image", "e", out)
    \/ \E id \in Ids, out \in SaveOutcomes : HandleMissing(id, out)
    \/ \E id \in Ids, status \in Seen, out \in SaveOutcomes : DbSync(id, status, out)

\* the store on its own: MaxOps operations of one process at a time
InitStore == InitPipeline /\ InitTrackDB(MaxOps) /\ InitLedgerHist /\ InitProcs

SpecStore == InitStore /\ [][NextStore]_vars

\* ------------------------------------ add_error_log, call after call
\* a store that holds a record for every id, each added with one of the two
\* kinds of initial data, loaded and saved
InitLog ==
    /\ InitPipeline
    /\ \E kinds \in [Ids -> InitialKinds] :
          LET tr == [id \in Ids |-> InitialRecord(kinds[id], 0)]
          IN  /\ db = [loaded |-> TRUE, tracks |-> tr]
              /\ dbFile = Snapshot(tr)
    /\ dbBak = Snapshot(EmptyTracks)
    /\ now = 0
    /\ op = NoOp
    /\ crash = [pending |-> FALSE, snap |-> NoFile]
    /\ lastChange = [id \in Ids |-> 0]
    /\ appended = [id \in Ids |-> <<>>]
    /\ opBudget = MaxAppends
    /\ InitLedgerHist
    /\ InitProcs

\* add_error_log called again and again on one item, every save written
NextLog ==
    \E id \in Ids, stage \in StatusStages :
        /\ op.name = "none" \/ op.id = id
        /\ DbAddErrorLog(id, stage, "e", "ok")

SpecLog == InitLog /\ [][NextLog]_vars

\* ------------------------------------------- FailedTasksDB on its own
\* str(error) of the failures recorded
LedgerMessages == {"e1", "e2"}

\* add_failed_task(track_id, stage, error): the list handed out by
\* retry_all_failed is the same list object until remove_failed_task
\* replaces data["failed_tasks"], and changes with it
LedgerRecord(id, stage, msg) ==
    /\ opBudget > 0
    /\ ledger' = add_failed_task(ledger, id, stage, msg)
    /\ lastRecorded' = [lastRecorded EXCEPT ![<<id, stage>>] = [msg |-> msg, n |-> @.n + 1]]
    /\ drained' = IF drained.live THEN [drained EXCEPT !.tasks = ledger'] ELSE drained
    /\ opBudget' = opBudget - 1
    /\ UNCHANGED <<storeVars, cpVars, frameVars, histVars>>
    /\ UNCHANGED <<db, dbFile, dbBak, now, op, crash, lastChange, appended, cpHist, procVars>>

\* remove_failed_task(track_id, stage): a new list without the pair's entries
LedgerRemove(id, stage) ==
    /\ opBudget > 0
    /\ ledger' = remove_failed_task(ledger, id, stage)
    /\ lastRecorded' = [lastRecorded EXCEPT ![<<id, stage>>] = [msg |-> "none", n |-> 0]]
    /\ drained' = [drained EXCEPT !.live = FALSE]
    /\ opBudget' = opBudget - 1
    /\ UNCHANGED <<storeVars, cpVars, frameVars, histVars>>
    /\ UNCHANGED <<db, dbFile, dbBak, now, op, crash, lastChange, appended, cpHist, procVars>>

\* retry_all_failed(): {"total": len(failed_tasks), "tasks": failed_tasks},
\* failed_tasks being what get_failed_tasks() returns, data["failed_tasks"]
\* itself; the ledger is left as it is
LedgerDrain ==
    /\ opBudget > 0
    /\ drained' = [n |-> drained.n + 1, tasks |-> get_failed_tasks(ledger),
                   live |-> TRUE, before |-> ledger]
    /\ opBudget' = opBudget - 1
    /\ UNCHANGED <<ledger, lastRecorded>>
    /\ UNCHANGED <<storeVars, cpVars, frameVars, histVars>>
    /\ UNCHANGED <<db, dbFile, dbBak, now, op, crash, lastChange, appended, cpHist, procVars>>

NextLedger ==
    \/ \E id \in Ids, stage \in LedgerStages, msg \in LedgerMessages : LedgerRecord(id, stage, msg)
    \/ \E id \in Ids, stage \in LedgerStages : LedgerRemove(id, stage)
    \/ LedgerDrain

InitLedger == InitPipeline /\ InitTrackDB(MaxLedgerOps) /\ InitLedgerHist /\ InitProcs

SpecLedger == InitLedger /\ [][NextLedger]_vars

\* -------------------------------------------- CheckpointDB on its own
\* the lists a caller can hand to save_checkpoint: ids without repetition
IdLists == UNION {Orderings(S) : S \in SUBSET Ids}

CheckpointStages == {"images", "videos"}

\* save_checkpoint(stage, track_id, completed, pending): self._data replaced
\* and written to checkpoint.json
CpSave(stage, tid, completed, pending) ==
    /\ cpData' = save_checkpoint(stage, tid, completed, pending)
    /\ cpFile' = save_checkpoint(stage, tid, completed, pending)
    /\ alias' = FALSE
    /\ cpOp' = [name |-> "save", prev |-> cpOp.name,
                arg |-> save_checkpoint(stage, tid, completed, pending),
                file |-> NoCheckpoint]
    /\ UNCHANGED <<storeVars, ledger, frameVars, histVars, ledgerHist, procVars>>
    /\ UNCHANGED <<db, dbFile, dbBak, now, op, crash, lastChange, appended, opBudget>>

\* clear_checkpoint()
CpClear ==
    /\ cpData' = clear_checkpoint(cpData, cpFile)
    /\ cpFile' = clear_checkpoint_file(cpData, cpFile)
    /\ alias' = FALSE
    /\ cpOp' = [name |-> "clear", prev |-> cpOp.name, arg |-> NoCheckpoint, file |-> cpFile]
    /\ UNCHANGED <<storeVars, ledger, frameVars, histVars, ledgerHist, procVars>>
    /\ UNCHANGED <<db, dbFile, dbBak, now, op, crash, lastChange, appended, opBudget>>

\* load() by a process that has nothing cached: the file's data is cached
CpLoad ==
    /\ ~cpData.present
    /\ cpFile.present
    /\ cpData' = load_data(cpData, cpFile)
    /\ UNCHANGED <<storeVars, ledger, cpFile, alias, frameVars, histVars, dbVars>>

NextCheckpoint ==
    \/ \E stage \in CheckpointStages, tid \in Ids, completed \in IdLists, pending \in IdLists :
          CpSave(stage, tid, completed, pending)
    \/ CpClear
    \/ CpLoad
    \/ Restart

SpecCheckpoint == Init /\ [][NextCheckpoint]_vars

\* ------------------------------------ two processes on one tracks.json
\* store operations allowed when two processes share the file
MaxPeerOps == 4

\* TrackDB._data of process i
DataOf(i) == IF i = 1 THEN db ELSE peer

\* process i is left with the data d; the other process keeps its own
SetData(i, d) ==
    IF i = 1 THEN db' = d /\ UNCHANGED peer
    ELSE peer' = d /\ UNCHANGED db

\* what no operation of the two processes touches
PeerFrame ==
    /\ now' = now + 1
    /\ opBudget' = opBudget - 1
    /\ UNCHANGED <<crash, lastChange, appended, lk>>
    /\ UNCHANGED <<storeVars, ledger, cpVars, frameVars, histVars, ledgerHist, cpHist>>

\* a read by process i (get_track, get_all_tracks): load(), which answers from
\* self._data once it is set
InstLoad(i) ==
    LET L == TrackDB_load(DataOf(i), dbFile, dbBak)
    IN  /\ opBudget > 0
        /\ SetData(i, [loaded |-> TRUE, tracks |-> L.tracks])
        /\ dbFile' = L.file
        /\ dbBak' = L.bak
        /\ op' = [NoOp EXCEPT !.name = "load", !.ret = "true", !.before = L.tracks]
        /\ UNCHANGED adds
        /\ PeerFrame

\* add_track(id) by process i, from its call to its return; no other
\* operation runs meanwhile and the save is written
InstAdd(i, id) ==
    LET L == TrackDB_load(DataOf(i), dbFile, dbBak)
        S == TrackDB_save(add_track_full(L.tracks, id, "default", now + 1),
                          L.file, L.bak, "ok")
        o == [NoOp EXCEPT !.name = "add", !.id = id, !.before = L.tracks]
    IN  /\ opBudget > 0
        /\ IF L.tracks[id].present
           THEN /\ SetData(i, [loaded |-> TRUE, tracks |-> L.tracks])
                /\ dbFile' = L.file
                /\ dbBak' = L.bak
                /\ op' = [o EXCEPT !.ret = "false"]
                /\ UNCHANGED adds
           ELSE /\ SetData(i, [loaded |-> S.loaded, tracks |-> S.tracks])
                /\ dbFile' = S.file
                /\ dbBak' = S.bak
                /\ op' = [o EXCEPT !.ret = S.ret, !.saved = TRUE, !.file = L.file]
                /\ adds' = (IF adds = <<>> THEN <<>> ELSE <<adds[Len(adds)]>>)
                               \o <<[by |-> i, id |-> id]>>
        /\ PeerFrame

NextPeers ==
    \/ \E i \in Procs : InstLoad(i)
    \/ \E i \in Procs, id \in Ids : InstAdd(i, id)

InitPeers == InitPipeline /\ InitTrackDB(MaxPeerOps) /\ InitLedgerHist /\ InitProcs

SpecPeers == InitPeers /\ [][NextPeers]_vars

\* ------------------------------------------------------- the lock files
\* one "with FileLock(self.lock_path, timeout=5):" block around a read or a
\* write of the store's file: the lock is taken, the file opened, the lock
\* released when the block is left
Section(l) == <<[a |-> "acq", l |-> l], [a |-> "rel", l |-> l]>>

\* TrackDB / FailedTasksDB: load() answers from self._data (no lock), reads
\* the file in one block, or, for a missing or corrupt tracks.json, ends in
\* save(); save() writes in one block; a mutator is load() then save()
StoreLocks(l) ==
    {<<>>, Section(l), Section(l) \o Section(l)}

\* variant of clear_checkpoint that re-reads the file inside its write block
CheckpointDB_clear_locks_nested ==
    {<<>>, Section("checkpoint"),
     <<[a |-> "acq", l |-> "checkpoint"]>> \o Section("checkpoint")
         \o <<[a |-> "rel", l |-> "checkpoint"]>>}

\* clear_checkpoint: nothing without a file; the write block alone when the
\* data is cached; else the read block, then the write block
CheckpointDB_clear_locks ==
    {<<>>, Section("checkpoint"), Section("checkpoint") \o Section("checkpoint")}

\* CheckpointDB.load (cached, or one read block) and save_checkpoint (one
\* write block)
CheckpointDB_locks == {<<>>, Section("checkpoint")}

\* the lock programs of the store methods a process calls, one at a time
StoreMethods ==
    (StoreLocks("tracks") \cup StoreLocks("failed") \cup CheckpointDB_locks
        \cup CheckpointDB_clear_locks) \ {<<>>}

\* lock l is held by a process other than p
HeldByOther(p, l) == \E q \in Procs \ {p} : l \in lk.held[q]

LockFrame ==
    UNCHANGED <<storeVars, ledger, cpVars, frameVars, histVars, db, dbFile, dbBak,
                now, op, crash, lastChange, appended, opBudget, ledgerHist, cpHist,
                peer, adds>>

\* process p, between two store methods, calls the next one
BeginMethod(p, m) ==
    /\ lk.prog[p] = <<>>
    /\ lk' = [lk EXCEPT !.prog[p] = m]
    /\ LockFrame

\* FileLock.acquire: granted when no other process holds the lock file
Acquire(p) ==
    /\ lk.prog[p] # <<>>
    /\ Head(lk.prog[p]).a = "acq"
    /\ ~HeldByOther(p, Head(lk.prog[p]).l)
    /\ lk' = [lk EXCEPT !.held[p] = @ \cup {Head(lk.prog[p]).l},
                        !.prog[p] = Tail(@),
                        !.twice = @ \/ Head(lk.prog[p]).l \in lk.held[p]]
    /\ LockFrame

\* the end of a with block
Release(p) ==
    /\ lk.prog[p] # <<>>
    /\ Head(lk.prog[p]).a = "rel"
    /\ lk' = [lk EXCEPT !.held[p] = @ \ {Head(lk.prog[p]).l}, !.prog[p] = Tail(@)]
    /\ LockFrame

\* the lock is not granted within 5 seconds: Timeout is raised, the with
\* blocks the method was in are left and the method ends
AcquireTimeout(p) ==
    /\ lk.prog[p] # <<>>
    /\ Head(lk.prog[p]).a = "acq"
    /\ HeldByOther(p, Head(lk.prog[p]).l)
    /\ lk' = [lk EXCEPT !.held[p] = {}, !.prog[p] = <<>>]
    /\ LockFrame

NextLocks ==
    \/ \E p \in Procs, m \in StoreMethods : BeginMethod(p, m)
    \/ \E p \in Procs : Acquire(p)
    \/ \E p \in Procs : Release(p)
    \/ \E p \in Procs : AcquireTimeout(p)

SpecLocks == Init /\ [][NextLocks]_vars

\* ------------------------------------------------------------- properties
\* the items of the current batch whose result so far is a success
Succeeded == {results[i].track_id : i \in {j \in 1..Len(results) : results[j].success /\ ~results[j].skipped}}

\* the number of per-item operations this call invoked for item id in stage st
Invocations(st, id) ==
    Cardinality({i \in 1..Len(invoked) : invoked[i].stage = st /\ invoked[i].track_id = id})

\* the per-item stage name of a checkpoint stage name
ItemStage(cs) == IF cs = "images" THEN "image" ELSE "video"

\* C1: when an active checkpoint exists and auto_resume is false, run returns
\* a failure result carrying that checkpoint, enters no scan, image or video
\* stage, and leaves the Record Store, the Failure Ledger and the Checkpoint
\* Store (its file and what load() answers) as they were before the call.
C1_GuardRefusesAndChangesNothing ==
    [][(pc = "run_enter" /\ has_checkpoint(cpData, cpFile) /\ ~opts.auto_resume)
          => /\ pc' = "done"
             /\ result'.kind = "failure"
             /\ result'.checkpoint.present
             /\ result'.checkpoint = load(cpData, cpFile)
             /\ ran' = {} /\ invoked' = <<>>
             /\ storeVars' = storeVars
             /\ ledger' = ledger
             /\ cpFile' = cpFile
             /\ load(cpData', cpFile') = load(cpData, cpFile)]_vars

\* C1 witness: a run was refused by the guard and returned the checkpoint
C1_Witness ==
    /\ pc = "done" /\ entry = "run" /\ result.error = "incomplete"
    /\ result.checkpoint.present
    /\ result.checkpoint.current_stage \in {"scan", "images", "unknown"}

\* C2: when run is interrupted by an operator cancel while the image or the
\* video stage is in progress, the checkpoint persisted when run returns names
\* that stage, lists in completed_tracks exactly the items of the stage that
\* had succeeded, and lists in pending_tracks the remaining items of the
\* stage's list.
C2_InterruptCheckpointRecordsProgress ==
    (pc = "done" /\ fn = "run" /\ result.kind = "interrupted"
        /\ result.at \in {"img_call", "img_cb", "vid_call", "vid_cb"})
    => LET cp    == load(cpData, cpFile)
           stage == IF result.at \in {"img_call", "img_cb"} THEN "images" ELSE "videos"
       IN  /\ cp.present
           /\ cpFile = cp
           /\ cp.current_stage = stage
           /\ Range(cp.completed_tracks) = Succeeded
           /\ cp.pending_tracks = Filter(track_ids, Succeeded)

\* C3: after a run interrupted in the middle of the image (or video) stage,
\* a resume_from_checkpoint whose collaborators succeed processes every item
\* of the interrupted stage that had not yet succeeded exactly once, processes
\* no item that had already succeeded, and ends with the checkpoint cleared.
C3_ResumeCompletesInterruptedStage ==
    (pc = "done" /\ entry = "resume" /\ intr.stage # "none"
        /\ ~opts.skip_images /\ ~opts.skip_videos
        /\ ~cancelled /\ result.error # "exception"
        /\ \A i \in 1..Len(invoked) : invoked[i].status # "failed")
    => /\ \A id \in intr.todo : Invocations(ItemStage(intr.stage), id) = 1
       /\ \A id \in intr.done : Invocations(ItemStage(intr.stage), id) = 0
       /\ ~has_checkpoint(cpData, cpFile)

\* position of item id in the list s (0 when absent)
IndexOf(s, id) == IF id \in Range(s) THEN CHOOSE i \in 1..Len(s) : s[i] = id ELSE 0

\* the list t holds exactly the items of s that are not in drop, in s's order
IsRestOf(t, s, drop) ==
    /\ Range(t) = Range(s) \ drop
    /\ \A i, j \in 1..Len(t) : i < j => IndexOf(s, t[i]) < IndexOf(s, t[j])

\* C4: for an active checkpoint whose stage is the image or the video stage,
\* resume_from_checkpoint hands to that stage's batch operation exactly the
\* items of pending_tracks that are not in completed_tracks, in pending_tracks
\* order, and the stage's per-item operation is invoked for no item of
\* completed_tracks, also when the item is listed in pending_tracks too.
C4_ResumeSkipsCompleted ==
    (fn = "resume" /\ resume_stage \in {"images", "videos"}
        /\ pc \in Body \cup {"done"})
    => LET st == ItemStage(resume_stage)
       IN  /\ \A i \in 1..Len(invoked) :
                  invoked[i].stage = st => invoked[i].track_id \notin rCompleted
           /\ (pc \in {"img_call", "img_cb", "img_errors", "vid_call", "vid_cb", "vid_errors"}
                  /\ batchStage = st)
              => IsRestOf(track_ids, rPending, rCompleted)
           /\ (pc = "vid_select" /\ resume_stage = "images")
              => \A id \in Range(rPending) \ rCompleted : Invocations(st, id) = 1

\* C4 witness: a resumed image batch has run over a checkpoint that lists an
\* item both as completed and as pending, and has left that item out
C4_Witness ==
    /\ pc = "img_errors" /\ fn = "resume" /\ resume_stage = "images"
    /\ rCompleted \cap Range(rPending) # {}
    /\ Len(track_ids) >= 1
    /\ Len(rPending) > Len(track_ids)

\* C5: when the active checkpoint's stage is the scan stage,
\* resume_from_checkpoint(options), for every options (auto_resume = true
\* included), clears the checkpoint, runs the whole pipeline from the scan on
\* and returns that run's result.
C5_ScanCheckpointRerunsPipeline ==
    (pc = "done" /\ resume_stage = "scan"
        /\ ~cancelled /\ result.error # "exception")
    => /\ "scan" \in ran
       /\ result.kind = "success"
       /\ ~result.resumed
       /\ ~has_checkpoint(cpData, cpFile)

C7_CancelReturnsInterrupted ==
    (pc = "done" /\ cancelled)
    => /\ result.kind = "interrupted"
       /\ has_checkpoint(cpData, cpFile)

\* C8: an unexpected exception in any stage of run makes run return a failure
\* result carrying the stage results collected so far, and leaves the
\* Checkpoint Store as it was: an active checkpoint stays active.
C8_ExceptionKeepsCheckpoint ==
    [][(pc \in Body /\ fn = "run" /\ pc' = "done" /\ result'.error = "exception")
          => /\ result'.kind = "failure"
             /\ result'.stages = stages_result
             /\ cpFile' = cpFile
             /\ load(cpData', cpFile') = load(cpData, cpFile)
             /\ has_checkpoint(cpData, cpFile) => has_checkpoint(cpData', cpFile')]_vars

\* C8 witness: run failed with an exception after the scan; the result
\* carries the scan's entry and the scan checkpoint is still active
C8_Witness ==
    /\ pc = "done" /\ fn = "run" /\ result.error = "exception"
    /\ HasKey(result.stages, "scan")
    /\ has_checkpoint(cpData, cpFile)

\* the failed results of the batch that has just been handled
StageFailures == {i \in 1..Len(results) : ~results[i].success /\ ~results[i].skipped}

\* C9: after the image or video stage of run or resume_from_checkpoint has
\* finished, every item the batch reported as failed has the stage's status
\* failed in the Record Store, an error_log entry for the stage, and exactly
\* one Failure Ledger entry for (item, stage), holding the failure's message.
C9_FailuresAreRecorded ==
    ((pc = "vid_select" /\ batchStage = "image") \/ (pc = "finish" /\ batchStage = "video"))
    => \A i \in StageFailures :
          LET id == results[i].track_id
              es == {k \in 1..Len(ledger) :
                        ledger[k].track_id = id /\ ledger[k].stage = batchStage}
          IN  /\ tracks[id].present
              /\ tracks[id][batchStage] = "failed"
              /\ \E k \in 1..Len(tracks[id].error_log) :
                     tracks[id].error_log[k].stage = batchStage
              /\ Cardinality(es) = 1
              /\ \A k \in es : ledger[k].error_message = results[i].error

\* C9 witness: a stage has finished for an item that failed now and already
\* had a ledger entry for the stage from an earlier call
C9_Witness ==
    /\ pc = "vid_select" /\ batchStage = "image"
    /\ StageFailures # {}
    /\ calls = 2
    /\ \E i \in StageFailures :
           Len(SelectSeq(tracks[results[i].track_id].error_log,
                         LAMBDA e : e.stage = "image")) >= 4

\* C10: a batch of n items attempts all n items in input order whatever items
\* fail, calls the progress callback once per item with current = 1..n, and
\* returns one result per item with successful + failed + skipped = n.
C10_BatchAttemptsEveryItem ==
    (pc \in {"img_errors", "vid_errors"})
    => LET n  == Len(track_ids)
           st == IF pc = "img_errors" THEN "image" ELSE "video"
           m  == Len(invoked)
       IN  /\ n >= 1
           /\ Len(results) = n
           /\ \A i \in 1..n : results[i].track_id = track_ids[i]
           /\ m >= n
           /\ \A i \in 1..n : /\ invoked[m - n + i].stage = st
                              /\ invoked[m - n + i].track_id = track_ids[i]
           /\ Len(progress) = n
           /\ \A i \in 1..n : /\ progress[i].current = i
                              /\ progress[i].total = n
                              /\ progress[i].track_id = track_ids[i]
                              /\ progress[i].status = StatusOf(results[i])
           /\ LET c == StageCounts(results) IN c[1] + c[2] + c[3] = n

\* C10 witness: a batch of two items has returned although its first item
\* failed in the collaborator
C10_Witness ==
    /\ pc \in {"img_errors", "vid_errors"}
    /\ Len(track_ids) = 2 /\ Len(results) = 2
    /\ StatusOf(results[1]) = "failed"
    /\ invoked[Len(invoked) - 1].collab

\* the entries of the ledger ld that a retry with stage argument stage attempts
Attempted(ld, stage) == {i \in 1..Len(ld) : stage = "none" \/ ld[i].stage = stage}

\* C11: retry_failed_tasks(stage) leaves the ledger it found minus exactly the
\* entries matching the stage filter whose own single-item retry succeeded;
\* 'total' is the number of entries attempted, 'retried' the number removed,
\* and each per-entry result reports success only for a retry that succeeded.
C11_RetryRemovesExactlySucceeded ==
    [][(pc = "idle" /\ pc' = "done" /\ fn' = "retry")
          => LET att  == Attempted(ledger, batchStage')
                 rs   == result'.results
                 \* position among the attempted entries of ledger entry i
                 pos(i) == Cardinality({j \in att : j <= i})
                 ok(i)  == invoked'[pos(i)].status = "success"
             IN  /\ result'.total = Cardinality(att)
                 /\ Len(rs) = Cardinality(att)
                 /\ Len(invoked') = Cardinality(att)
                 /\ \A i \in att : /\ rs[pos(i)].track_id = ledger[i].track_id
                                   /\ rs[pos(i)].stage = ledger[i].stage
                                   /\ invoked'[pos(i)].track_id = ledger[i].track_id
                                   /\ invoked'[pos(i)].stage = ledger[i].stage
                                   /\ rs[pos(i)].success <=> ok(i)
                 /\ ledger' = SelectSeq(ledger,
                                 LAMBDA t : ~\E i \in att : ledger[i] = t /\ ok(i))
                 /\ result'.retried = Len(ledger) - Len(ledger')
                 /\ result'.retried = Cardinality({i \in att : ok(i)})]_vars

\* C11 witness: a retry filtered by stage removed the one entry it retried
\* with success and left the entry of the other stage in the ledger
C11_Witness ==
    /\ pc = "done" /\ fn = "retry" /\ batchStage # "none"
    /\ result.total = 1 /\ result.retried = 1
    /\ Len(ledger) = 1 /\ ledger[1].stage # batchStage

\* the counts stored in stages_result under key k
GetKey(sr, k) == (CHOOSE p \in sr : p[1] = k)[2]

\* the scan of this run found every audio file unregistered: the store was
\* empty when full_scan_and_sync began
ScannedFreshStore ==
    /\ HasKey(stages_result, "scan")
    /\ GetKey(stages_result, "scan")[1] = Cardinality(musicFiles)
    /\ GetKey(stages_result, "scan")[2] = Cardinality(musicFiles)

\* C12: register_new gives a discovered file a record with music completed and
\* image and video pending, so after full_scan_and_sync on a fresh store every
\* discovered item has music.status = completed and image.status = pending.
C12_RegisteredItemsArePending ==
    (pc = "img_select" /\ fn = "run" /\ ScannedFreshStore)
    => \A id \in musicFiles :
          /\ tracks[id].present
          /\ tracks[id].music = "completed"
          /\ tracks[id].image = "pending"
          /\ tracks[id].video = "pending"

\* C13: from an empty store with one audio file and no image or video file, a
\* single run with no skip flags and no limit, with collaborators that always
\* succeed, takes the newly registered item through the image and the video
\* stage: at return all three stages are completed (fully_completed = 1).
C13_FreshFileIsFullyProcessed ==
    (pc = "done" /\ entry = "run" /\ fn = "run" /\ result.kind = "success"
        /\ opts = NoOptions /\ calls = 1
        /\ ScannedFreshStore /\ Cardinality(musicFiles) = 1
        /\ \A i \in 1..Len(invoked) : invoked[i].status # "failed")
    => /\ result.summary[1] = 1
       /\ \A id \in musicFiles : /\ Invocations("image", id) = 1
                                 /\ Invocations("video", id) = 1
                                 /\ tracks[id].image = "completed"
                                 /\ tracks[id].video = "completed"

\* the record agrees with the file status: no stage is completed without its
\* file, every stage whose file is there is completed with that path
Agrees(F, status) ==
    \A i \in 1..3 :
        LET s == StageNames[i]
        IN  IF status[s] = "absent" THEN Get(F, <<s, "status">>) # "completed"
            ELSE /\ Get(F, <<s, "status">>) = "completed"
                 /\ Get(F, <<s, "file_path">>) = status[s]

\* C14: after sync_with_db on an existing record, each stage whose file is
\* absent has left completed for pending and kept any other status, each stage
\* whose file is present is completed with the observed path; a record that
\* already agreed is left as it was, updated_at included, and nothing is saved
C14_SyncReconciles ==
    (op.name = "sync" /\ op.before[op.id].present /\ db.loaded) =>
        LET old == op.before[op.id]
            new == db.tracks[op.id]
        IN  /\ \A i \in 1..3 :
                LET s == StageNames[i]
                IN  IF op.seen[s] = "absent"
                    THEN Get(new.fields, <<s, "status">>) =
                            (IF Get(old.fields, <<s, "status">>) = "completed"
                             THEN "pending" ELSE Get(old.fields, <<s, "status">>))
                    ELSE /\ Get(new.fields, <<s, "status">>) = "completed"
                         /\ Get(new.fields, <<s, "file_path">>) = op.seen[s]
            /\ Agrees(old.fields, op.seen) =>
                  (new = old /\ ~op.saved /\ op.ret = "true")

\* C14 witness: a sync that found a completed image under another path and
\* corrected the record's path
C14_Witness ==
    /\ op.name = "sync" /\ db.loaded /\ op.saved
    /\ op.before[op.id].present
    /\ Get(op.before[op.id].fields, <<"image", "status">>) = "completed"
    /\ Get(op.before[op.id].fields, <<"image", "file_path">>) = "p1"
    /\ op.seen.image = "p2"
    /\ Get(db.tracks[op.id].fields, <<"image", "file_path">>) = "p2"

\* C15: when a process crashed inside save() and the store was then loaded
\* again, the snapshot that tracks.json held when that save began (the last
\* one persisted) is the content of tracks.json or of tracks.json.bak
C15_CrashSafePersistence ==
    (op.name = "load" /\ op.recovered /\ crash.snap.kind = "ok") =>
        (dbFile = crash.snap \/ dbBak = crash.snap)

\* C16: a store operation whose lock acquisition on tracks.json timed out,
\* in load or in save, ends by raising an error to its caller
C16_LockTimeoutRaises ==
    op.fault = "timeout" => op.ret = "raised"

\* C17: add_track on an id the store already holds returns False, saves
\* nothing and leaves every record as it was; after any add_track the store
\* holds a record for the id and the records of the other ids are untouched
C17_AddIsIdempotent ==
    (op.name = "add" /\ db.loaded) =>
        /\ db.tracks[op.id].present
        /\ \A i \in Ids \ {op.id} : db.tracks[i] = op.before[i]
        /\ op.before[op.id].present =>
              (op.ret = "false" /\ ~op.saved /\ db.tracks = op.before)

\* C17 witness: an add_track refused for an id whose record had been changed
\* since it was added
C17_Witness ==
    /\ op.name = "add" /\ db.loaded /\ op.ret = "false"
    /\ op.before[op.id].present
    /\ lastChange[op.id] > 0

\* the recursive merge of two nested mappings, on their leaves: a leaf of U
\* replaces what F holds at its path, above it or below it; every other
\* leaf of F stays
DeepMerge(F, U) ==
    {x \in F : ~\E u \in U : IsPrefix(x[1], u[1]) \/ IsPrefix(u[1], x[1])} \cup U

\* C18: update_track leaves the record equal to the recursive merge of the
\* updates into the old record, at every nesting depth
C18_UpdateDeepMerges ==
    (op.name = "update" /\ db.loaded /\ op.before[op.id].present) =>
        db.tracks[op.id].fields = DeepMerge(op.before[op.id].fields, op.updates)

\* C19: the updated_at of a record is never older than the last change that
\* update_track, update_status, add_error_log or sync_with_db made to it
C19_UpdatedAtFollowsChanges ==
    db.loaded =>
        \A id \in Ids : db.tracks[id].present => db.tracks[id].updated_at >= lastChange[id]

\* the last n elements of a sequence
LastN(seq, n) == SubSeq(seq, Len(seq) - n + 1, Len(seq))

\* C20: after n add_error_log calls on an item its error_log is the last
\* min(n, 10) entries appended, in the order they were appended, and no
\* error_log is longer than 10
C20_ErrorLogKeepsLastTen ==
    \A id \in Ids :
        LET n == Len(appended[id])
        IN  /\ db.tracks[id].error_log =
                  LastN(appended[id], IF n < ErrorLogMax THEN n ELSE ErrorLogMax)
            /\ Len(db.tracks[id].error_log) <= ErrorLogMax

\* C20 witness: an item after more than ten appends, the oldest entry gone
C20_Witness ==
    \E id \in Ids :
        /\ Len(appended[id]) > ErrorLogMax
        /\ Len(db.tracks[id].error_log) = ErrorLogMax
        /\ db.tracks[id].error_log[1] = appended[id][Len(appended[id]) - ErrorLogMax + 1]

\* C21: the ledger never holds two entries for one (track_id, stage) pair, and
\* every entry carries the message of the last add_failed_task call for its pair
C21_LedgerUpserts ==
    /\ \A i, j \in 1..Len(ledger) :
          (ledger[i].track_id = ledger[j].track_id /\ ledger[i].stage = ledger[j].stage)
              => i = j
    /\ \A i \in 1..Len(ledger) :
          ledger[i].error_message = lastRecorded[<<ledger[i].track_id, ledger[i].stage>>].msg

\* C21 witness: a pair recorded twice and still first in the list, with the
\* entry of another pair recorded after it
C21_Witness ==
    /\ Len(ledger) = 2
    /\ lastRecorded[<<ledger[1].track_id, ledger[1].stage>>].n = 2
    /\ ledger[1].error_message = "e2"
    /\ ledger[2].error_message = "e1"

\* C22: retry_all_failed returns every entry of the ledger and leaves the
\* ledger empty in the same step, and the list it returned keeps the content
\* it had at the return whatever is recorded or removed afterwards
C22_DrainCapturesAndClears ==
    /\ [][drained'.n = drained.n + 1 =>
             (drained'.tasks = ledger /\ ledger' = <<>>)]_vars
    /\ [](drained.n > 0 => drained.tasks = drained.before)

RECURSIVE SumOver(_, _)
\* the sum of f over the finite set S
SumOver(f, S) ==
    IF S = {} THEN 0
    ELSE LET x == CHOOSE y \in S : TRUE IN f[x] + SumOver(f, S \ {x})

\* C25: get_statistics() reports the number of records, the number of
\* records with all three stages completed, and for each stage counters
\* that add up to the number of records
C25_StatisticsAddUp ==
    db.loaded =>
        LET st == get_statistics(db.tracks)
        IN  /\ st.total_tracks = Cardinality({id \in Ids : db.tracks[id].present})
            /\ st.fully_completed =
                  Cardinality({id \in Ids : db.tracks[id].present /\
                      \A stage \in Stages :
                          Get(db.tracks[id].fields, <<stage, "status">>) = "completed"})
            /\ \A stage \in Stages :
                  SumOver(st.counts[stage], StatStatuses) = st.total_tracks

\* C26: in a call whose options carry limit = N, N >= 0, the list handed to
\* the image batch and the list handed to the video batch hold at most N items
C26_LimitCapsEachStage ==
    (pc \in {"img_call", "vid_call"} /\ opts.limit >= 0) => Len(track_ids) <= opts.limit

\* the item a batch is about to process has its output file on disk
OutputExists ==
    \/ pc = "img_call" /\ track_ids[idx] \in imageFiles
    \/ pc = "vid_call" /\ track_ids[idx] \in videoFiles

\* C27: when a stage of a call of run (the stages it runs itself and the ones it
\* runs after picking up a checkpoint) processes an item whose output file
\* exists, the item is not reported skipped if the call's options carry
\* force = true, and is reported skipped without invoking the collaborator if
\* they do not
C27_ForceBypassesSkip ==
    [][(entry = "run" /\ pc \in {"img_call", "vid_call"} /\ OutputExists
           /\ Len(invoked') = Len(invoked) + 1) =>
          LET e == invoked'[Len(invoked')]
          IN  IF opts.force THEN e.status # "skipped"
              ELSE e.status = "skipped" /\ ~e.collab]_vars

\* C28: a call of retry_failed_tasks leaves the Checkpoint Store as it found
\* it: the cached data, the file and what load() answers are the same after
\* the call as before it, whatever the outcomes of the retries
C28_RetryLeavesCheckpoint ==
    [][(pc = "idle" /\ pc' = "done" /\ entry' = "retry") =>
          /\ cpData' = cpData
          /\ cpFile' = cpFile
          /\ load(cpData', cpFile') = load(cpData, cpFile)]_vars

\* a retry that processed a ledger entry has returned while a checkpoint is active
C28_Witness ==
    /\ pc = "done"
    /\ entry = "retry"
    /\ result.total > 0
    /\ load(cpData, cpFile).present

\* the checkpoint a process started now would read back: load() with nothing
\* cached, so from the file alone
ReadBack == load(NoCheckpoint, cpFile)

\* the checkpoint name of the stage whose batch is at position pc
StageAt == IF pc \in {"img_call", "img_cb"} THEN "images" ELSE "videos"

\* C29: at every point at which the image or video stage of run is processing
\* its items, the checkpoint a restarted process would read back is active,
\* names that stage as current_stage, and its completed_tracks misses fewer
\* than 5 of the items that have succeeded in the stage so far
C29_KillLeavesStageCheckpoint ==
    (fn = "run" /\ pc \in {"img_call", "img_cb", "vid_call", "vid_cb"}) =>
        /\ ReadBack.present
        /\ ReadBack.current_stage = StageAt
        /\ Cardinality(Succeeded \ Range(ReadBack.completed_tracks)) < CheckpointEvery

\* C30: every checkpoint the progress callback of an image or video stage of
\* run writes, after item k of the ordered list L, has completed_tracks equal
\* to the first k items of L and pending_tracks equal to the rest of L in order
C30_CheckpointSplitsList ==
    [][(fn = "run" /\ pc \in {"img_cb", "vid_cb"}
           /\ ((idx % CheckpointEvery = 0) \/ idx = Len(track_ids))) =>
          /\ cpFile'.completed_tracks = SubSeq(track_ids, 1, idx)
          /\ cpFile'.pending_tracks = SubSeq(track_ids, idx + 1, Len(track_ids))]_vars

\* the ids of a list are in ascending order
Ascending(l) == \A i, j \in 1..Len(l) : i < j => l[i] < l[j]

C32_VideoNeedsCompletedImage ==
    /\ [][(pc = "vid_call" /\ Len(invoked') = Len(invoked) + 1
              /\ invoked'[Len(invoked')].collab) =>
             tracks[track_ids[idx]].image = "completed"]_vars
    /\ [](entry \in {"run", "resume"} =>
             \A i, j \in 1..Len(invoked) :
                 (i < j /\ invoked[i].stage = "video") => invoked[j].stage = "video")

\* C34: when run is entered while no checkpoint is active, its next step is
\* the scan stage whatever the value of options.auto_resume, and so no call
\* of run returns the failure "there is no checkpoint to resume"
C34_RunWithoutCheckpointScans ==
    /\ []((entry = "run" /\ pc = "done") => result.error # "no_checkpoint")
    /\ [][(pc = "run_enter" /\ ~has_checkpoint(cpData, cpFile)) => pc' = "scan"]_vars

\* the status of stage st in the record of item id
StageStatus(id, st) == IF st = "image" THEN tracks[id].image ELSE tracks[id].video

\* C35: whenever no call is in progress, every Failure Ledger entry
\* (item, stage) refers to an item whose status for that stage in the Record
\* Store is failed, so the failed count of a summary counts no item whose
\* stage has been completed since
C35_LedgerEntriesAreFailed ==
    (pc \in {"idle", "done"}) =>
        \A i \in 1..Len(ledger) :
            StageStatus(ledger[i].track_id, ledger[i].stage) = "failed"

\* the stage names resume_from_checkpoint has a branch for
RecognisedStages == {"scan", "images", "videos"}

CallStep ==
    \/ RunEnter
    \/ Scan
    \/ RunImageSelect
    \/ ImageCall
    \/ ImageProgress
    \/ ImageErrors
    \/ RunVideoSelect
    \/ VideoCall
    \/ VideoProgress
    \/ VideoErrors
    \/ RunFinish
    \/ ResumeEnter
    \/ ResumeImageSelect
    \/ ResumeVideoSelect
    \/ ResumeVideosBranch
    \/ ResumeFinish

\* the pipeline whose calls keep taking their next step
SpecLive == Init /\ [][Next]_vars /\ WF_vars(CallStep)

MutatorNames == {"add", "update", "status", "append"}

\* C39: whenever a Record Store mutator has returned False, the in-memory
\* records are what the call found, and when it had reached save() the
\* backing file is what it was when the save began
C39_FalseMeansUnchanged ==
    (op.name \in MutatorNames /\ op.ret = "false") =>
        /\ db.tracks = op.before
        /\ op.saved => dbFile = op.file

\* C38: when the last two add_track calls that returned True were made by
\* different processes, one after the other, tracks.json holds both items
C38_NoLostAdd ==
    (Len(adds) = 2 /\ adds[1].by # adds[2].by) =>
        /\ dbFile.tracks[adds[1].id].present
        /\ dbFile.tracks[adds[2].id].present

\* process p is inside a method and can take its next step without a timeout
CanStep(p) ==
    /\ lk.prog[p] # <<>>
    /\ Head(lk.prog[p]).a = "acq" => ~HeldByOther(p, Head(lk.prog[p]).l)

\* C33: no process holds two of the three store locks at once, none asks for
\* a lock it holds, and whenever some process is inside a store method at
\* least one of them can go on: the processes never wait for each other in
\* a circle
C33_OneLockAtATime ==
    /\ \A p \in Procs : Cardinality(lk.held[p]) <= 1
    /\ ~lk.twice
    /\ (\E p \in Procs : lk.prog[p] # <<>>) => \E p \in Procs : CanStep(p)

\* one process holds tracks.json.lock while the other is about to ask for
\* the same lock
C33_Witness ==
    /\ lk.held[1] = {"tracks"}
    /\ lk.prog[2] # <<>>
    /\ Head(lk.prog[2]) = [a |-> "acq", l |-> "tracks"]
====
